---- MODULE Spec2Model ----
(***************************************************************************)
(* State-machine model of the WaCa storage bot (src/bot.py): the storage   *)
(* registry, the per-guild settings, the FBH batch ledger, the KL lot      *)
(* ledger with lazy drying, the KL pantry and the recipe command.          *)
(*                                                                         *)
(* Texts (item names, storage names, role names) are sequences of          *)
(* one-character strings, so that strip / split / lower act on them as     *)
(* they do in Python.  Tables are sets of rows (records); every table      *)
(* with an AUTOINCREMENT key has its sequence counter as a variable.       *)
(***************************************************************************)
EXTENDS Integers, Sequences, FiniteSets, TLC

VARIABLES
    now,             \* wall clock read by now_ts(), in seconds
    storages,        \* table storages
    storage_seq,     \* AUTOINCREMENT counter of storages
    guild_settings,  \* table guild_settings, a function guild_id -> row
    fbh_batches,     \* table fbh_batches
    fbh_seq,         \* AUTOINCREMENT counter of fbh_batches
    kl_herb_lots,    \* table kl_herb_lots
    kl_seq,          \* AUTOINCREMENT counter of kl_herb_lots
    kl_pantry,       \* table kl_pantry
    last,            \* the last command: its inputs and the reply it sent
    pre,             \* history: the ledger tables as they were before it
    tasks            \* the commands in flight: task id -> its local state

vars == <<now, storages, storage_seq, guild_settings, fbh_batches, fbh_seq,
          kl_herb_lots, kl_seq, kl_pantry, last, pre, tasks>>

----------------------------------------------------------------------------
(* Bounds of the model *)

\* largest age in days given to the spoilage classification
MaxAge == 15
\* clock steps of four days in one run of the pile status
MaxPileTicks == 2
\* largest quantity of a pantry row in a run of the pantry store
MaxStock == 3
\* add commands issued in one run of the whole machine
MaxAdds == 2
\* largest quantity given to an add command
MaxQty == 2
\* storages created in one run
MaxStorages == 2
\* batches added in one run of the batch ledger
MaxBatches == 3
\* lots added in one run of the lot ledger
MaxLots == 2
\* clock steps in one run
MaxTicks == 1

\* commands in flight at one time
MaxTasks == 2

\* quantities given to take and craft commands: 0 is the rejected input
Mengen == 0 .. (MaxQty + 1)

None == "None"

Min(a, b) == IF a <= b THEN a ELSE b

\* SUM(qty) over a set of rows
RECURSIVE SumQty(_)
SumQty(rows) ==
    IF rows = {} THEN 0
    ELSE LET x == CHOOSE y \in rows : TRUE
         IN  x.qty + SumQty(rows \ {x})

----------------------------------------------------------------------------
(* Text helpers: str.strip, str.split / " ".join, str.lower *)

Whitespace == {" "}

Lower(c) ==
    CASE c = "A" -> "a" [] c = "B" -> "b" [] c = "C" -> "c" [] c = "D" -> "d"
      [] c = "E" -> "e" [] c = "F" -> "f" [] c = "G" -> "g" [] c = "H" -> "h"
      [] c = "I" -> "i" [] c = "J" -> "j" [] c = "K" -> "k" [] c = "L" -> "l"
      [] c = "M" -> "m" [] c = "N" -> "n" [] c = "O" -> "o" [] c = "P" -> "p"
      [] c = "Q" -> "q" [] c = "R" -> "r" [] c = "S" -> "s" [] c = "T" -> "t"
      [] c = "U" -> "u" [] c = "V" -> "v" [] c = "W" -> "w" [] c = "X" -> "x"
      [] c = "Y" -> "y" [] c = "Z" -> "z"
      [] OTHER -> c

Upper(c) ==
    CASE c = "a" -> "A" [] c = "b" -> "B" [] c = "c" -> "C" [] c = "d" -> "D"
      [] c = "e" -> "E" [] c = "f" -> "F" [] c = "g" -> "G" [] c = "h" -> "H"
      [] c = "i" -> "I" [] c = "j" -> "J" [] c = "k" -> "K" [] c = "l" -> "L"
      [] c = "m" -> "M" [] c = "n" -> "N" [] c = "o" -> "O" [] c = "p" -> "P"
      [] c = "q" -> "Q" [] c = "r" -> "R" [] c = "s" -> "S" [] c = "t" -> "T"
      [] c = "u" -> "U" [] c = "v" -> "V" [] c = "w" -> "W" [] c = "x" -> "X"
      [] c = "y" -> "Y" [] c = "z" -> "Z"
      [] OTHER -> c

lower(s) == [i \in 1 .. Len(s) |-> Lower(s[i])]

upper(s) == [i \in 1 .. Len(s) |-> Upper(s[i])]

RECURSIVE lstrip(_)
lstrip(s) ==
    IF s = <<>> THEN s
    ELSE IF Head(s) \in Whitespace THEN lstrip(Tail(s)) ELSE s

RECURSIVE rstrip(_)
rstrip(s) ==
    IF s = <<>> THEN s
    ELSE IF s[Len(s)] \in Whitespace THEN rstrip(SubSeq(s, 1, Len(s) - 1)) ELSE s

strip(s) == rstrip(lstrip(s))

\* " ".join(s.split()) on a stripped text: every run of whitespace becomes
\* one blank
RECURSIVE join_split(_)
join_split(s) ==
    IF Len(s) <= 1 THEN s
    ELSE IF s[1] \in Whitespace /\ s[2] \in Whitespace THEN join_split(Tail(s))
    ELSE IF s[1] \in Whitespace THEN <<" ">> \o join_split(Tail(s))
    ELSE <<s[1]>> \o join_split(Tail(s))

\* mutant of norm_key: the case is kept
norm_key_case_kept(s) == join_split(strip(s))

norm_key(s) == lower(join_split(strip(s)))

----------------------------------------------------------------------------
(* Configuration (config.json) and module constants *)

TYPE_FBH == <<"F", "B", "H">>
TYPE_KL == <<"K", "L">>

DAY == 24 * 60 * 60

DRY_WINDOW == 7 * 24 * 60 * 60

DEFAULT_FBH_SMELL_DAYS == 7
DEFAULT_FBH_RUIN_DAYS == 14

Blattfrische ==
    <<"B", "l", "a", "t", "t", "f", "r", "i", "s", "c", "h", "e">>
Blattfall ==
    <<"B", "l", "a", "t", "t", "f", "a", "l", "l">>
Blattleere ==
    <<"B", "l", "a", "t", "t", "l", "e", "e", "r", "e">>
Blattgruene ==
    <<"B", "l", "a", "t", "t", "g", "r", "u", "e", "n", "e">>

\* a text that is no season
Sommer ==
    <<"S", "o", "m", "m", "e", "r">>

SAISON_TIMES ==
    [s \in {Blattfrische, Blattfall, Blattleere, Blattgruene} |->
        CASE s = Blattfrische -> <<4, 7>>
          [] s = Blattfall -> <<4, 7>>
          [] s = Blattleere -> <<7, 10>>
          [] s = Blattgruene -> <<2, 5>>]

Maus_allgemein ==
    <<"M", "a", "u", "s", " ", "(", "a", "l", "l", "g", "e", "m", "e", "i", "n", ")">>
Fisch_allgemein ==
    <<"F", "i", "s", "c", "h", " ", "(", "a", "l", "l", "g", "e", "m", "e", "i", "n", ")">>
Ratte_allgemein ==
    <<"R", "a", "t", "t", "e", " ", "(", "a", "l", "l", "g", "e", "m", "e", "i", "n", ")">>

\* the entries of ALIASES_FBH for the three animals of the model
ALIASES_FBH ==
    [k \in {<<"m", "a", "u", "s">>, <<"f", "i", "s", "c", "h">>,
            <<"f", "i", "s", "h">>, <<"r", "a", "t", "t", "e">>} |->
        CASE k = <<"m", "a", "u", "s">> -> Maus_allgemein
          [] k = <<"f", "i", "s", "c", "h">> -> Fisch_allgemein
          [] k = <<"f", "i", "s", "h">> -> Fisch_allgemein
          [] k = <<"r", "a", "t", "t", "e">> -> Ratte_allgemein]

apply_aliases_fbh(name) ==
    LET k == norm_key(name)
    IN  IF k \in DOMAIN ALIASES_FBH THEN ALIASES_FBH[k] ELSE strip(name)

Basil == <<"B", "a", "s", "i", "l">>
Thyme == <<"T", "h", "y", "m", "e">>
Dill == <<"D", "i", "l", "l">>

\* a configuration: two allowed animals, two allowed herbs
ALLOWED_FBH_PREY == {Maus_allgemein, Fisch_allgemein}
ALLOWED_KL_HERBS == {Basil, Thyme}

AllowedMap(names) ==
    [k \in {norm_key(x) : x \in names} |->
        CHOOSE x \in names : norm_key(x) = k]

ALLOWED_FBH_SET == AllowedMap(ALLOWED_FBH_PREY)
ALLOWED_KL_SET == AllowedMap(ALLOWED_KL_HERBS)

is_allowed(name, allowed_map) == norm_key(name) \in DOMAIN allowed_map

canonical(name, allowed_map) ==
    IF norm_key(name) \in DOMAIN allowed_map
    THEN allowed_map[norm_key(name)]
    ELSE strip(name)

\* the recipe table: recipe name -> ingredients in the order of the
\* dictionary, each <<herb name, quantity per unit>>
Mix == <<"M", "i", "x">>
Duo == <<"D", "u", "o">>
Tee == <<"T", "e", "e">>

KL_RECIPES ==
    [r \in {Mix, Duo, Tee} |->
        CASE r = Mix -> << <<Basil, 2>>, <<Thyme, 1>> >>
          [] r = Duo -> << <<Basil, 1>>, <<lower(Basil) \o <<" ">>, 1>> >>
          [] r = Tee -> << <<Dill, 1>>, <<Thyme, 2>> >>]

----------------------------------------------------------------------------
(* Members, roles and the permission helpers *)

RoleJaeger == [id |-> 10, name |-> <<"J", "a", "e", "g", "e", "r">>]
RoleMod == [id |-> 20, name |-> <<"M", "o", "d">>]

\* a moderator, a holder of the owner role, and a member with neither
Moderator ==
    [id |-> 1, roles |-> {RoleMod}, manage_guild |-> FALSE, administrator |-> FALSE]
Holder ==
    [id |-> 2, roles |-> {RoleJaeger}, manage_guild |-> FALSE, administrator |-> FALSE]
Stranger ==
    [id |-> 3, roles |-> {}, manage_guild |-> FALSE, administrator |-> FALSE]

Members == {Moderator, Holder, Stranger}
OwnerRoles == {RoleJaeger, RoleMod}
Guilds == {1}

is_mod_or_admin(member) ==
    LET role_names == {lower(r.name) : r \in member.roles}
    IN  \/ <<"m", "o", "d">> \in role_names
        \/ <<"a", "d", "m", "i", "n">> \in role_names
        \/ member.manage_guild
        \/ member.administrator

member_has_role_id(member, role_id) == \E r \in member.roles : r.id = role_id

\* mutant of assert_storage_access: nobody is refused
assert_storage_access_open(member, owner_role_id) == TRUE

\* assert_storage_access returns (TRUE) or raises PermissionError (FALSE)
assert_storage_access(member, owner_role_id) ==
    \/ member_has_role_id(member, owner_role_id)
    \/ is_mod_or_admin(member)

----------------------------------------------------------------------------
(* Database layer (class LagerDB): each method as a function of the tables *)

\* INSERT OR IGNORE INTO guild_settings (guild_id): the column defaults
ensure_settings(gs, guild_id) ==
    IF guild_id \in DOMAIN gs THEN gs
    ELSE [g \in DOMAIN gs \cup {guild_id} |->
            IF g = guild_id
            THEN [saison |-> Blattfrische, fbh_saison_verderb |-> FALSE,
                  kl_trocknen |-> FALSE]
            ELSE gs[g]]

\* the row get_settings returns (after ensure_settings)
get_settings(gs, guild_id) == ensure_settings(gs, guild_id)[guild_id]

set_kl_trocknen(gs, guild_id, active) ==
    [ensure_settings(gs, guild_id) EXCEPT ![guild_id].kl_trocknen = active]

set_fbh_saison_verderb(gs, guild_id, active) ==
    [ensure_settings(gs, guild_id) EXCEPT ![guild_id].fbh_saison_verderb = active]

\* mutant of set_saison: the UPDATE writes the whole row, the two switches
\* with their defaults
set_saison_whole_row(gs, guild_id, saison) ==
    [ensure_settings(gs, guild_id) EXCEPT
        ![guild_id] = [saison |-> saison, fbh_saison_verderb |-> FALSE,
                       kl_trocknen |-> FALSE]]

set_saison(gs, guild_id, saison) ==
    [ensure_settings(gs, guild_id) EXCEPT ![guild_id].saison = saison]

\* storage_get: the set holding (id, owner role) of the row found, empty
\* when the method returns None
\* mutant of storage_get: the type is not part of the WHERE clause
storage_get_any_type(st, guild_id, type_, name) ==
    {[id |-> s.id, owner_role_id |-> s.owner_role_id] :
        s \in {x \in st : x.guild_id = guild_id /\ x.name = strip(name)}}

storage_get(st, guild_id, type_, name) ==
    {[id |-> s.id, owner_role_id |-> s.owner_role_id] :
        s \in {x \in st : x.guild_id = guild_id /\ x.type = type_
                          /\ x.name = strip(name)}}

\* the one element of a set that holds one
The(S) == CHOOSE x \in S : TRUE

\* mutant of storage_conflict: no UNIQUE constraint
storage_conflict_never(st, guild_id, type_, name) == FALSE

\* UNIQUE (guild_id, type, name): the INSERT of storage_create raises
storage_conflict(st, guild_id, type_, name) ==
    \E s \in st : s.guild_id = guild_id /\ s.type = type_ /\ s.name = strip(name)

storage_create(st, seq, guild_id, type_, name, owner_role_id) ==
    st \cup {[id |-> seq + 1, guild_id |-> guild_id, type |-> type_,
              name |-> strip(name), owner_role_id |-> owner_role_id]}

\* mutant of OrderByAddedAt: ORDER BY added_at DESC
OrderByAddedAtDesc(rows) ==
    {f \in [1 .. Cardinality(rows) -> rows] :
        /\ \A i, j \in DOMAIN f : i # j => f[i] # f[j]
        /\ \A i, j \in DOMAIN f : i < j => f[i].added_at >= f[j].added_at}

\* every order in which SELECT ... ORDER BY added_at ASC can return the rows:
\* rows with equal added_at come in any order
OrderByAddedAt(rows) ==
    {f \in [1 .. Cardinality(rows) -> rows] :
        /\ \A i, j \in DOMAIN f : i # j => f[i] # f[j]
        /\ \A i, j \in DOMAIN f : i < j => f[i].added_at <= f[j].added_at}

\* mutant of fbh_add: the quantity goes to a batch of the item when the
\* storage has one
fbh_add_merging(tbl, seq, storage_id, item_display, qty, ts) ==
    LET same == {b \in tbl : /\ b.storage_id = storage_id
                             /\ b.item_key = norm_key(item_display)}
    IN  IF same # {}
        THEN LET b == CHOOSE x \in same : TRUE
             IN  (tbl \ {b}) \cup {[b EXCEPT !.qty = b.qty + qty]}
        ELSE tbl \cup {[id |-> seq + 1, storage_id |-> storage_id,
                        item_key |-> norm_key(item_display),
                        item_display |-> strip(item_display),
                        qty |-> qty, added_at |-> ts]}

fbh_add(tbl, seq, storage_id, item_display, qty, ts) ==
    tbl \cup {[id |-> seq + 1, storage_id |-> storage_id,
               item_key |-> norm_key(item_display),
               item_display |-> strip(item_display),
               qty |-> qty, added_at |-> ts]}

\* GROUP BY item_key with SUM(qty), groups with a sum <= 0 left out
fbh_total(tbl, storage_id) ==
    LET mine == {b \in tbl : b.storage_id = storage_id}
        keys == {b.item_key : b \in mine}
        sum(k) == SumQty({b \in mine : b.item_key = k})
    IN  [k \in {x \in keys : sum(x) > 0} |-> sum(k)]

\* mutant of fbh_take_select: the key is not part of the WHERE clause
fbh_take_select_any_key(tbl, storage_id, item_display) ==
    {b \in tbl : b.storage_id = storage_id}

\* the rows the SELECT of fbh_take matches
fbh_take_select(tbl, storage_id, item_display) ==
    {b \in tbl : b.storage_id = storage_id /\ b.item_key = norm_key(item_display)}

\* the loop of fbh_take over the fetched rows
RECURSIVE fbh_take_loop(_, _, _, _)
fbh_take_loop(tbl, batches, to_remove, removed) ==
    IF batches = <<>> \/ to_remove <= 0
    THEN [tbl |-> tbl, removed |-> removed]
    ELSE LET b == Head(batches)
             take == Min(b.qty, to_remove)
             new_qty == b.qty - take
             tbl2 == IF new_qty <= 0
                     THEN {x \in tbl : x.id # b.id}
                     ELSE {IF x.id = b.id THEN [x EXCEPT !.qty = new_qty] ELSE x :
                              x \in tbl}
         IN  fbh_take_loop(tbl2, Tail(batches), to_remove - take, removed + take)

\* mutant of fbh_take: returns the amount asked for
fbh_take_asked(tbl, batches, qty) ==
    [fbh_take_loop(tbl, batches, qty, 0) EXCEPT !.removed = qty]

\* fbh_take with the rows fetched in the order `batches`
fbh_take(tbl, batches, qty) == fbh_take_loop(tbl, batches, qty, 0)

\* the rows of a storage as fbh_batches_for_status returns them
fbh_batches_for_status(tbl, storage_id) == {b \in tbl : b.storage_id = storage_id}

FRISCH == "frisch"
GETROCKNET == "getrocknet"

\* mutant of kl_mark_dried_older_than: a lot added at the cutoff stays Fresh
kl_mark_dried_strictly_older(tbl, storage_id, cutoff_ts) ==
    {IF l.storage_id = storage_id /\ l.state = FRISCH /\ l.added_at < cutoff_ts
     THEN [l EXCEPT !.state = GETROCKNET]
     ELSE l : l \in tbl}

\* mutant of kl_mark_dried_older_than: the cutoff is not compared
kl_mark_dried_any_age(tbl, storage_id, cutoff_ts) ==
    {IF l.storage_id = storage_id /\ l.state = FRISCH
     THEN [l EXCEPT !.state = GETROCKNET]
     ELSE l : l \in tbl}

kl_mark_dried_older_than(tbl, storage_id, cutoff_ts) ==
    {IF l.storage_id = storage_id /\ l.state = FRISCH /\ l.added_at <= cutoff_ts
     THEN [l EXCEPT !.state = GETROCKNET]
     ELSE l : l \in tbl}

\* mutant of kl_add_herb: the quantity goes to a lot of the herb when the
\* storage has one
kl_add_herb_merging(tbl, seq, storage_id, herb_display, qty, ts) ==
    LET same == {l \in tbl : /\ l.storage_id = storage_id
                             /\ l.herb_key = norm_key(herb_display)}
    IN  IF same # {}
        THEN LET l == CHOOSE x \in same : TRUE
             IN  (tbl \ {l}) \cup {[l EXCEPT !.qty = l.qty + qty]}
        ELSE tbl \cup {[id |-> seq + 1, storage_id |-> storage_id,
                        herb_key |-> norm_key(herb_display),
                        herb_display |-> strip(herb_display),
                        qty |-> qty, state |-> FRISCH, added_at |-> ts]}

kl_add_herb(tbl, seq, storage_id, herb_display, qty, ts) ==
    tbl \cup {[id |-> seq + 1, storage_id |-> storage_id,
               herb_key |-> norm_key(herb_display),
               herb_display |-> strip(herb_display),
               qty |-> qty, state |-> FRISCH, added_at |-> ts]}

\* GROUP BY herb_key, state with SUM(qty): the list of one state, as a
\* function herb_display -> total, totals <= 0 left out
kl_totals_of_state(tbl, storage_id, state) ==
    LET mine == {l \in tbl : l.storage_id = storage_id /\ l.state = state}
        sum(d) == SumQty({l \in mine : l.herb_display = d})
    IN  [d \in {x \in {l.herb_display : l \in mine} : sum(x) > 0} |-> sum(d)]

kl_totals_by_state(tbl, storage_id) ==
    [fresh |-> kl_totals_of_state(tbl, storage_id, FRISCH),
     dried |-> kl_totals_of_state(tbl, storage_id, GETROCKNET)]

kl_total_available(tbl, storage_id, herb_key) ==
    SumQty({l \in tbl : l.storage_id = storage_id /\ l.herb_key = herb_key})

\* the rows one SELECT of kl_take_herb matches
kl_take_select(tbl, storage_id, herb_display, state) ==
    {l \in tbl : /\ l.storage_id = storage_id
                 /\ l.herb_key = norm_key(herb_display)
                 /\ l.state = state}

\* mutant of kl_take_loop: a drained lot is kept with quantity 0
RECURSIVE kl_take_loop_keep0(_, _, _, _)
kl_take_loop_keep0(tbl, lots, to_remove, removed) ==
    IF lots = <<>> \/ to_remove <= 0
    THEN [tbl |-> tbl, removed |-> removed]
    ELSE LET l == Head(lots)
             take == Min(l.qty, to_remove)
             new_qty == l.qty - take
             tbl2 == IF new_qty < 0
                     THEN {x \in tbl : x.id # l.id}
                     ELSE {IF x.id = l.id THEN [x EXCEPT !.qty = new_qty] ELSE x :
                              x \in tbl}
         IN  kl_take_loop_keep0(tbl2, Tail(lots), to_remove - take, removed + take)

\* the inner loop of kl_take_herb over the fetched lots of one state
RECURSIVE kl_take_loop(_, _, _, _)
kl_take_loop(tbl, lots, to_remove, removed) ==
    IF lots = <<>> \/ to_remove <= 0
    THEN [tbl |-> tbl, removed |-> removed]
    ELSE LET l == Head(lots)
             take == Min(l.qty, to_remove)
             new_qty == l.qty - take
             tbl2 == IF new_qty <= 0
                     THEN {x \in tbl : x.id # l.id}
                     ELSE {IF x.id = l.id THEN [x EXCEPT !.qty = new_qty] ELSE x :
                              x \in tbl}
         IN  kl_take_loop(tbl2, Tail(lots), to_remove - take, removed + take)

\* mutant of kl_take_states: Dried before Fresh
kl_take_states_dried_first == <<GETROCKNET, FRISCH>>

\* the states kl_take_herb goes through, in order
kl_take_states == <<FRISCH, GETROCKNET>>

\* kl_take_herb with the lots of the first state fetched in the order
\* `first` and those of the second state in the order `second`
kl_take_herb(tbl, first, second, qty) ==
    LET r1 == kl_take_loop(tbl, first, qty, 0)
    IN  IF qty - r1.removed <= 0 THEN r1
        ELSE kl_take_loop(r1.tbl, second, qty - r1.removed, r1.removed)

\* every result kl_take_herb can have: one for each order the two SELECTs
\* can return their rows in
kl_take_herb_results(tbl, storage_id, herb_display, qty) ==
    {kl_take_herb(tbl, f, d, qty) :
        f \in OrderByAddedAt(kl_take_select(tbl, storage_id, herb_display,
                                            kl_take_states[1])),
        d \in OrderByAddedAt(kl_take_select(tbl, storage_id, herb_display,
                                            kl_take_states[2]))}

\* mutant of pantry_add: the row is inserted without looking for one
pantry_add_insert_only(tbl, storage_id, item_display, qty) ==
    tbl \cup {[storage_id |-> storage_id, item_key |-> norm_key(item_display),
               item_display |-> strip(item_display), qty |-> qty]}

pantry_add(tbl, storage_id, item_display, qty) ==
    LET k == norm_key(item_display)
        row == {p \in tbl : p.storage_id = storage_id /\ p.item_key = k}
    IN  IF row # {}
        THEN {IF p \in row THEN [p EXCEPT !.qty = p.qty + qty]
              ELSE p : p \in tbl}
        ELSE tbl \cup {[storage_id |-> storage_id, item_key |-> k,
                        item_display |-> strip(item_display), qty |-> qty]}

\* mutant of pantry_take: a row is deleted only below 0
pantry_take_keep0(tbl, storage_id, item_display, qty) ==
    LET k == norm_key(item_display)
        row == {p \in tbl : p.storage_id = storage_id /\ p.item_key = k}
    IN  IF row = {} THEN [tbl |-> tbl, take |-> 0]
        ELSE LET have == The(row).qty
                 take == Min(have, qty)
                 new_qty == have - take
             IN  [tbl |-> IF new_qty < 0 THEN tbl \ row
                          ELSE {IF p \in row THEN [p EXCEPT !.qty = new_qty]
                                ELSE p : p \in tbl},
                  take |-> take]

\* pantry_take: the table it leaves and the amount it returns
pantry_take(tbl, storage_id, item_display, qty) ==
    LET k == norm_key(item_display)
        row == {p \in tbl : p.storage_id = storage_id /\ p.item_key = k}
    IN  IF row = {} THEN [tbl |-> tbl, take |-> 0]
        ELSE LET have == The(row).qty
                 take == Min(have, qty)
                 new_qty == have - take
             IN  [tbl |-> IF new_qty <= 0 THEN tbl \ row
                          ELSE {IF p \in row THEN [p EXCEPT !.qty = new_qty]
                                ELSE p : p \in tbl},
                  take |-> take]

\* item_display -> qty of the rows with qty > 0
pantry_list(tbl, storage_id) ==
    LET mine == {p \in tbl : p.storage_id = storage_id /\ p.qty > 0}
    IN  [d \in {p.item_display : p \in mine} |->
            (CHOOSE p \in mine : p.item_display = d).qty]

----------------------------------------------------------------------------
(* Helpers of the commands *)

\* mutant of kl_apply_drying_if_enabled: with the toggle off the lots of
\* the storage are set back to Fresh
kl_apply_drying_undo_when_off(gs, tbl, guild_id, storage_id, ts) ==
    LET settings == get_settings(gs, guild_id)
        cutoff == ts - DRY_WINDOW
    IN  [gs |-> ensure_settings(gs, guild_id),
         lots |-> IF ~settings.kl_trocknen
                  THEN {IF l.storage_id = storage_id
                        THEN [l EXCEPT !.state = FRISCH] ELSE l : l \in tbl}
                  ELSE kl_mark_dried_older_than(tbl, storage_id, cutoff)]

\* mutant of kl_apply_drying_if_enabled: the cutoff is the present time
kl_apply_drying_no_window(gs, tbl, guild_id, storage_id, ts) ==
    LET settings == get_settings(gs, guild_id)
    IN  [gs |-> ensure_settings(gs, guild_id),
         lots |-> IF ~settings.kl_trocknen THEN tbl
                  ELSE kl_mark_dried_older_than(tbl, storage_id, ts)]

\* mutant of kl_apply_drying_if_enabled: the toggle is not looked at
kl_apply_drying_always(gs, tbl, guild_id, storage_id, ts) ==
    [gs |-> ensure_settings(gs, guild_id),
     lots |-> kl_mark_dried_older_than(tbl, storage_id, ts - DRY_WINDOW)]

kl_apply_drying_if_enabled(gs, tbl, guild_id, storage_id, ts) ==
    LET settings == get_settings(gs, guild_id)
        cutoff == ts - DRY_WINDOW
    IN  [gs |-> ensure_settings(gs, guild_id),
         lots |-> IF ~settings.kl_trocknen THEN tbl
                  ELSE kl_mark_dried_older_than(tbl, storage_id, cutoff)]

\* mutant of fbh_status_for_age_days: a threshold is reached a day late
fbh_status_day_late(age_days, saison, saison_enabled) ==
    LET times == IF saison_enabled
                 THEN IF saison \in DOMAIN SAISON_TIMES THEN SAISON_TIMES[saison]
                      ELSE <<DEFAULT_FBH_SMELL_DAYS, DEFAULT_FBH_RUIN_DAYS>>
                 ELSE <<DEFAULT_FBH_SMELL_DAYS, DEFAULT_FBH_RUIN_DAYS>>
    IN  IF age_days > times[2] THEN "verdorben"
        ELSE IF age_days > times[1] THEN "muffelt"
        ELSE "frisch"

fbh_status_for_age_days(age_days, saison, saison_enabled) ==
    LET times == IF saison_enabled
                 THEN IF saison \in DOMAIN SAISON_TIMES THEN SAISON_TIMES[saison]
                      ELSE <<DEFAULT_FBH_SMELL_DAYS, DEFAULT_FBH_RUIN_DAYS>>
                 ELSE <<DEFAULT_FBH_SMELL_DAYS, DEFAULT_FBH_RUIN_DAYS>>
        smell_days == times[1]
        ruin_days == times[2]
    IN  IF age_days >= ruin_days THEN "verdorben"
        ELSE IF age_days >= smell_days THEN "muffelt"
        ELSE "frisch"

\* mutant of check_availability: the pass stops at the first entry
RECURSIVE check_availability_first(_, _, _, _, _)
check_availability_first(tbl, storage_id, recipe, menge, i) ==
    IF i > Len(recipe) THEN <<>>
    ELSE LET herb_name == recipe[i][1]
             base_qty == recipe[i][2]
             herb_key == norm_key(herb_name)
             need == base_qty * menge
             have == kl_total_available(tbl, storage_id, herb_key)
         IN  IF ~is_allowed(herb_name, ALLOWED_KL_SET)
             THEN <<[herb_name |-> herb_name, kind |-> "nicht erlaubt",
                     fehlt |-> None, need |-> None, have |-> None]>>
             ELSE IF have < need
             THEN <<[herb_name |-> herb_name, kind |-> "fehlt",
                     fehlt |-> need - have, need |-> need, have |-> have]>>
             ELSE check_availability_first(tbl, storage_id, recipe, menge, i + 1)

\* the first pass of kl_herstellen: the entries of `missing`, in the order
\* of the recipe, from ingredient i on
RECURSIVE check_availability(_, _, _, _, _)
check_availability(tbl, storage_id, recipe, menge, i) ==
    IF i > Len(recipe) THEN <<>>
    ELSE LET herb_name == recipe[i][1]
             base_qty == recipe[i][2]
             herb_key == norm_key(herb_name)
             need == base_qty * menge
             have == kl_total_available(tbl, storage_id, herb_key)
             rest == check_availability(tbl, storage_id, recipe, menge, i + 1)
         IN  IF ~is_allowed(herb_name, ALLOWED_KL_SET)
             THEN <<[herb_name |-> herb_name, kind |-> "nicht erlaubt",
                     fehlt |-> None, need |-> None, have |-> None]>> \o rest
             ELSE IF have < need
             THEN <<[herb_name |-> herb_name, kind |-> "fehlt",
                     fehlt |-> need - have, need |-> need, have |-> have]>> \o rest
             ELSE rest

\* the second pass of kl_herstellen from ingredient i on: every outcome it
\* can have, as the lot table it leaves and whether every take returned
\* the amount needed (the pass returns at the first take that did not)
RECURSIVE subtract_ingredients(_, _, _, _, _)
subtract_ingredients(tbl, storage_id, recipe, menge, i) ==
    IF i > Len(recipe) THEN {[tbl |-> tbl, ok |-> TRUE]}
    ELSE LET herb_canon == canonical(recipe[i][1], ALLOWED_KL_SET)
             need == recipe[i][2] * menge
         IN  UNION {IF r.removed # need
                    THEN {[tbl |-> r.tbl, ok |-> FALSE]}
                    ELSE subtract_ingredients(r.tbl, storage_id, recipe, menge, i + 1) :
                        r \in kl_take_herb_results(tbl, storage_id, herb_canon, need)}

----------------------------------------------------------------------------
(* The commands.  `last` is the command and the reply it sent; `pre` the   *)
(* tables as the command found them.  The columns no code reads          *)
(* (created_at of storages, updated_at of kl_pantry, added_by, updated_by) *)
(* are left out of the rows.                                               *)

Reply0 ==
    [cmd |-> None, member |-> None, status |-> None, storage_id |-> None,
     name |-> None, menge |-> None, removed |-> None, missing |-> <<>>,
     report |-> None]

\* a reply to the member who issued the command
ReplyTo(member) == [Reply0 EXCEPT !.member = member.id]

Snapshot ==
    [fbh_batches |-> fbh_batches, kl_herb_lots |-> kl_herb_lots,
     kl_pantry |-> kl_pantry, guild_settings |-> guild_settings]

\* mutant of Rejected: the settings row is read before the error is sent
RejectedAfterSettings(member, cmd, status) ==
    /\ last' = [ReplyTo(member) EXCEPT !.cmd = cmd, !.status = status]
    /\ pre' = Snapshot
    /\ guild_settings' = ensure_settings(guild_settings, 1)
    /\ UNCHANGED <<tasks, now, storages, storage_seq, fbh_batches,
                   fbh_seq, kl_herb_lots, kl_seq, kl_pantry>>

\* a command that replies with an error before it touches the database
Rejected(member, cmd, status) ==
    /\ last' = [ReplyTo(member) EXCEPT !.cmd = cmd, !.status = status]
    /\ pre' = Snapshot
    /\ UNCHANGED <<tasks, now, storages, storage_seq, guild_settings, fbh_batches,
                   fbh_seq, kl_herb_lots, kl_seq, kl_pantry>>

\* resolve_storage followed by assert_storage_access: the error, or "ok"
ResolveStatus(member, guild_id, type_, lager) ==
    LET got == storage_get(storages, guild_id, type_, lager)
    IN  IF got = {} THEN "nicht gefunden"
        ELSE IF ~assert_storage_access(member, The(got).owner_role_id)
        THEN "keine Berechtigung"
        ELSE "ok"

lager_erstellen(member, guild_id, typ, name, rolle) ==
    LET typ2 == upper(strip(typ))
    IN  IF ~is_mod_or_admin(member) THEN Rejected(member, "lager_erstellen", "nur Mod/Admin")
        ELSE IF typ2 \notin {TYPE_FBH, TYPE_KL}
        THEN Rejected(member, "lager_erstellen", "Typ")
        ELSE IF storage_conflict(storages, guild_id, typ2, name)
        THEN Rejected(member, "lager_erstellen", "existiert schon")
        ELSE /\ storages' = storage_create(storages, storage_seq, guild_id, typ2,
                                           name, rolle.id)
             /\ storage_seq' = storage_seq + 1
             /\ last' = [ReplyTo(member) EXCEPT !.cmd = "lager_erstellen", !.status = "ok",
                                       !.storage_id = storage_seq + 1]
             /\ pre' = Snapshot
             /\ UNCHANGED <<tasks, now, guild_settings, fbh_batches, fbh_seq,
                            kl_herb_lots, kl_seq, kl_pantry>>

saison_setzen(member, guild_id, saison) ==
    LET saison2 == strip(saison)
    IN  IF ~is_mod_or_admin(member)
        THEN Rejected(member, "saison_setzen", "nur Mod/Admin")
        ELSE IF saison2 \notin DOMAIN SAISON_TIMES
        THEN Rejected(member, "saison_setzen", "Ungueltig")
        ELSE /\ guild_settings' = set_saison(guild_settings, guild_id, saison2)
             /\ last' = [ReplyTo(member) EXCEPT !.cmd = "saison_setzen",
                                                !.status = "ok", !.name = saison2]
             /\ pre' = Snapshot
             /\ UNCHANGED <<tasks, now, storages, storage_seq, fbh_batches, fbh_seq,
                            kl_herb_lots, kl_seq, kl_pantry>>

fbh_saison_verderb(member, guild_id, aktiv) ==
    IF ~is_mod_or_admin(member)
    THEN Rejected(member, "fbh_saison_verderb", "nur Mod/Admin")
    ELSE /\ guild_settings' = set_fbh_saison_verderb(guild_settings, guild_id, aktiv)
         /\ last' = [ReplyTo(member) EXCEPT !.cmd = "fbh_saison_verderb",
                                            !.status = "ok"]
         /\ pre' = Snapshot
         /\ UNCHANGED <<tasks, now, storages, storage_seq, fbh_batches, fbh_seq,
                        kl_herb_lots, kl_seq, kl_pantry>>

kl_trocknen(member, guild_id, aktiv) ==
    IF ~is_mod_or_admin(member) THEN Rejected(member, "kl_trocknen", "nur Mod/Admin")
    ELSE /\ guild_settings' = set_kl_trocknen(guild_settings, guild_id, aktiv)
         /\ last' = [ReplyTo(member) EXCEPT !.cmd = "kl_trocknen", !.status = "ok"]
         /\ pre' = Snapshot
         /\ UNCHANGED <<tasks, now, storages, storage_seq, fbh_batches, fbh_seq,
                        kl_herb_lots, kl_seq, kl_pantry>>

fbh_hinzufuegen(member, guild_id, lager, beute, menge) ==
    LET st == ResolveStatus(member, guild_id, TYPE_FBH, lager)
        got == The(storage_get(storages, guild_id, TYPE_FBH, lager))
        beute2 == apply_aliases_fbh(beute)
        beute3 == canonical(beute2, ALLOWED_FBH_SET)
    IN  IF menge <= 0 THEN Rejected(member, "fbh_hinzufuegen", "Menge")
        ELSE IF st # "ok" THEN Rejected(member, "fbh_hinzufuegen", st)
        ELSE IF ~is_allowed(beute2, ALLOWED_FBH_SET)
        THEN Rejected(member, "fbh_hinzufuegen", "nicht erlaubt")
        ELSE /\ fbh_batches' = fbh_add(fbh_batches, fbh_seq, got.id, beute3, menge, now)
             /\ fbh_seq' = fbh_seq + 1
             /\ last' = [ReplyTo(member) EXCEPT !.cmd = "fbh_hinzufuegen", !.status = "ok",
                                       !.storage_id = got.id, !.name = beute3,
                                       !.menge = menge]
             /\ pre' = Snapshot
             /\ UNCHANGED <<tasks, now, storages, storage_seq, guild_settings,
                            kl_herb_lots, kl_seq, kl_pantry>>

fbh_entnehmen(member, guild_id, lager, beute, menge) ==
    LET st == ResolveStatus(member, guild_id, TYPE_FBH, lager)
        got == The(storage_get(storages, guild_id, TYPE_FBH, lager))
        beute2 == apply_aliases_fbh(beute)
        beute3 == canonical(beute2, ALLOWED_FBH_SET)
    IN  IF menge <= 0 THEN Rejected(member, "fbh_entnehmen", "Menge")
        ELSE IF st # "ok" THEN Rejected(member, "fbh_entnehmen", st)
        ELSE IF ~is_allowed(beute2, ALLOWED_FBH_SET)
        THEN Rejected(member, "fbh_entnehmen", "nicht erlaubt")
        ELSE \E batches \in OrderByAddedAt(fbh_take_select(fbh_batches, got.id, beute3)) :
                LET r == fbh_take(fbh_batches, batches, menge)
                IN  /\ fbh_batches' = r.tbl
                    /\ last' = [ReplyTo(member) EXCEPT !.cmd = "fbh_entnehmen", !.status = "ok",
                                              !.storage_id = got.id, !.name = beute3,
                                              !.menge = menge, !.removed = r.removed]
                    /\ pre' = Snapshot
                    /\ UNCHANGED <<tasks, now, storages, storage_seq, guild_settings, fbh_seq,
                                   kl_herb_lots, kl_seq, kl_pantry>>

kl_hinzufuegen(member, guild_id, lager, kraut, menge) ==
    LET st == ResolveStatus(member, guild_id, TYPE_KL, lager)
        got == The(storage_get(storages, guild_id, TYPE_KL, lager))
        kraut2 == canonical(kraut, ALLOWED_KL_SET)
        aged == kl_apply_drying_if_enabled(guild_settings, kl_herb_lots, guild_id,
                                           got.id, now)
    IN  IF menge <= 0 THEN Rejected(member, "kl_hinzufuegen", "Menge")
        ELSE IF st # "ok" THEN Rejected(member, "kl_hinzufuegen", st)
        ELSE IF ~is_allowed(kraut, ALLOWED_KL_SET)
        THEN Rejected(member, "kl_hinzufuegen", "nicht erlaubt")
        ELSE /\ guild_settings' = aged.gs
             /\ kl_herb_lots' = kl_add_herb(aged.lots, kl_seq, got.id, kraut2, menge, now)
             /\ kl_seq' = kl_seq + 1
             /\ last' = [ReplyTo(member) EXCEPT !.cmd = "kl_hinzufuegen", !.status = "ok",
                                       !.storage_id = got.id, !.name = kraut2,
                                       !.menge = menge]
             /\ pre' = Snapshot
             /\ UNCHANGED <<tasks, now, storages, storage_seq, fbh_batches, fbh_seq, kl_pantry>>

\* mutant of kl_entnehmen: the lots are taken first and aged afterwards
kl_entnehmen_take_then_age(member, guild_id, lager, kraut, menge) ==
    LET st == ResolveStatus(member, guild_id, TYPE_KL, lager)
        got == The(storage_get(storages, guild_id, TYPE_KL, lager))
        kraut2 == canonical(kraut, ALLOWED_KL_SET)
    IN  IF menge <= 0 THEN Rejected(member, "kl_entnehmen", "Menge")
        ELSE IF st # "ok" THEN Rejected(member, "kl_entnehmen", st)
        ELSE IF ~is_allowed(kraut, ALLOWED_KL_SET)
        THEN Rejected(member, "kl_entnehmen", "nicht erlaubt")
        ELSE \E r \in kl_take_herb_results(kl_herb_lots, got.id, kraut2, menge) :
                LET aged == kl_apply_drying_if_enabled(guild_settings, r.tbl,
                                                       guild_id, got.id, now)
                IN  /\ guild_settings' = aged.gs
                    /\ kl_herb_lots' = aged.lots
                    /\ last' = [ReplyTo(member) EXCEPT
                                   !.cmd = "kl_entnehmen", !.status = "ok",
                                   !.storage_id = got.id, !.name = kraut2,
                                   !.menge = menge, !.removed = r.removed]
                    /\ pre' = Snapshot
                    /\ UNCHANGED <<tasks, now, storages, storage_seq, fbh_batches,
                                   fbh_seq, kl_seq, kl_pantry>>

kl_entnehmen(member, guild_id, lager, kraut, menge) ==
    LET st == ResolveStatus(member, guild_id, TYPE_KL, lager)
        got == The(storage_get(storages, guild_id, TYPE_KL, lager))
        kraut2 == canonical(kraut, ALLOWED_KL_SET)
        aged == kl_apply_drying_if_enabled(guild_settings, kl_herb_lots, guild_id,
                                           got.id, now)
    IN  IF menge <= 0 THEN Rejected(member, "kl_entnehmen", "Menge")
        ELSE IF st # "ok" THEN Rejected(member, "kl_entnehmen", st)
        ELSE IF ~is_allowed(kraut, ALLOWED_KL_SET)
        THEN Rejected(member, "kl_entnehmen", "nicht erlaubt")
        ELSE \E r \in kl_take_herb_results(aged.lots, got.id, kraut2, menge) :
                /\ guild_settings' = aged.gs
                /\ kl_herb_lots' = r.tbl
                /\ last' = [ReplyTo(member) EXCEPT !.cmd = "kl_entnehmen", !.status = "ok",
                                          !.storage_id = got.id, !.name = kraut2,
                                          !.menge = menge, !.removed = r.removed]
                /\ pre' = Snapshot
                /\ UNCHANGED <<tasks, now, storages, storage_seq, fbh_batches, fbh_seq,
                               kl_seq, kl_pantry>>

\* mutant of kl_herstellen: the ingredients are subtracted before the
\* validation result is looked at
kl_herstellen_subtract_first(member, guild_id, lager, rezept, menge) ==
    LET st == ResolveStatus(member, guild_id, TYPE_KL, lager)
        got == The(storage_get(storages, guild_id, TYPE_KL, lager))
        aged == kl_apply_drying_if_enabled(guild_settings, kl_herb_lots, guild_id,
                                           got.id, now)
        recipe == KL_RECIPES[rezept]
        missing == check_availability(aged.lots, got.id, recipe, menge, 1)
        reply == [ReplyTo(member) EXCEPT !.cmd = "kl_herstellen", !.storage_id = got.id,
                                !.name = rezept, !.menge = menge]
    IN  IF menge <= 0 THEN Rejected(member, "kl_herstellen", "Menge")
        ELSE IF st # "ok" THEN Rejected(member, "kl_herstellen", st)
        ELSE IF rezept \notin DOMAIN KL_RECIPES
        THEN Rejected(member, "kl_herstellen", "Rezept nicht gefunden")
        ELSE \E out \in subtract_ingredients(aged.lots, got.id, recipe, menge, 1) :
                /\ guild_settings' = aged.gs
                /\ kl_herb_lots' = out.tbl
                /\ kl_pantry' = IF missing = <<>> /\ out.ok
                                THEN pantry_add(kl_pantry, got.id, rezept, menge)
                                ELSE kl_pantry
                /\ last' = IF missing # <<>>
                           THEN [reply EXCEPT !.status = "nicht genug Zutaten",
                                              !.missing = missing]
                           ELSE [reply EXCEPT
                                   !.status = IF out.ok THEN "ok"
                                              ELSE "unerwarteter Fehler"]
                /\ pre' = Snapshot
                /\ UNCHANGED <<tasks, now, storages, storage_seq, fbh_batches, fbh_seq, kl_seq>>

kl_herstellen(member, guild_id, lager, rezept, menge) ==
    LET st == ResolveStatus(member, guild_id, TYPE_KL, lager)
        got == The(storage_get(storages, guild_id, TYPE_KL, lager))
        aged == kl_apply_drying_if_enabled(guild_settings, kl_herb_lots, guild_id,
                                           got.id, now)
        recipe == KL_RECIPES[rezept]
        missing == check_availability(aged.lots, got.id, recipe, menge, 1)
        reply == [ReplyTo(member) EXCEPT !.cmd = "kl_herstellen", !.storage_id = got.id,
                                !.name = rezept, !.menge = menge]
    IN  IF menge <= 0 THEN Rejected(member, "kl_herstellen", "Menge")
        ELSE IF st # "ok" THEN Rejected(member, "kl_herstellen", st)
        ELSE IF rezept \notin DOMAIN KL_RECIPES
        THEN Rejected(member, "kl_herstellen", "Rezept nicht gefunden")
        ELSE IF missing # <<>>
        THEN /\ guild_settings' = aged.gs
             /\ kl_herb_lots' = aged.lots
             /\ last' = [reply EXCEPT !.status = "nicht genug Zutaten",
                                      !.missing = missing]
             /\ pre' = Snapshot
             /\ UNCHANGED <<tasks, now, storages, storage_seq, fbh_batches, fbh_seq,
                            kl_seq, kl_pantry>>
        ELSE \E out \in subtract_ingredients(aged.lots, got.id, recipe, menge, 1) :
                /\ guild_settings' = aged.gs
                /\ kl_herb_lots' = out.tbl
                /\ kl_pantry' = IF out.ok
                                THEN pantry_add(kl_pantry, got.id, rezept, menge)
                                ELSE kl_pantry
                /\ last' = [reply EXCEPT
                              !.status = IF out.ok THEN "ok" ELSE "unerwarteter Fehler"]
                /\ pre' = Snapshot
                /\ UNCHANGED <<tasks, now, storages, storage_seq, fbh_batches, fbh_seq, kl_seq>>

\* mutant of pile_status: a smelly batch is looked for first
pile_status_smelly_first(batches, settings, ts) ==
    LET st(b) == fbh_status_for_age_days((ts - b.added_at) \div DAY, settings.saison,
                                         settings.fbh_saison_verderb)
    IN  IF \E b \in batches : st(b) = "muffelt" THEN "MUFFELT"
        ELSE IF \E b \in batches : st(b) = "verdorben" THEN "VERDORBEN"
        ELSE "FRISCH"

\* the worst status among the batches: inventar_anzeigen's ruined_any /
\* smelly_any flags
pile_status(batches, settings, ts) ==
    LET st(b) == fbh_status_for_age_days((ts - b.added_at) \div DAY, settings.saison,
                                         settings.fbh_saison_verderb)
    IN  IF \E b \in batches : st(b) = "verdorben" THEN "VERDORBEN"
        ELSE IF \E b \in batches : st(b) = "muffelt" THEN "MUFFELT"
        ELSE "FRISCH"

inventar_anzeigen(member, guild_id, typ, lager) ==
    LET typ2 == upper(strip(typ))
        st == ResolveStatus(member, guild_id, typ2, lager)
        got == The(storage_get(storages, guild_id, typ2, lager))
        settings == get_settings(guild_settings, guild_id)
        totals == fbh_total(fbh_batches, got.id)
        aged == kl_apply_drying_if_enabled(guild_settings, kl_herb_lots, guild_id,
                                           got.id, now)
        reply == [ReplyTo(member) EXCEPT !.cmd = "inventar_anzeigen", !.status = "ok",
                                !.storage_id = got.id, !.name = typ2]
    IN  IF typ2 \notin {TYPE_FBH, TYPE_KL} THEN Rejected(member, "inventar_anzeigen", "Typ")
        ELSE IF st # "ok" THEN Rejected(member, "inventar_anzeigen", st)
        ELSE IF typ2 = TYPE_FBH
        THEN /\ guild_settings' = ensure_settings(guild_settings, guild_id)
             /\ last' = IF DOMAIN totals = {}
                        THEN [reply EXCEPT !.report = [leer |-> TRUE]]
                        ELSE [reply EXCEPT !.report =
                                [status |-> pile_status(
                                     fbh_batches_for_status(fbh_batches, got.id),
                                     settings, now),
                                 totals |-> totals]]
             /\ pre' = Snapshot
             /\ UNCHANGED <<tasks, now, storages, storage_seq, fbh_batches, fbh_seq,
                            kl_herb_lots, kl_seq, kl_pantry>>
        ELSE /\ guild_settings' = aged.gs
             /\ kl_herb_lots' = aged.lots
             /\ last' = [reply EXCEPT !.report =
                            [fresh |-> kl_totals_by_state(aged.lots, got.id).fresh,
                             dried |-> kl_totals_by_state(aged.lots, got.id).dried,
                             pantry |-> pantry_list(kl_pantry, got.id)]]
             /\ pre' = Snapshot
             /\ UNCHANGED <<tasks, now, storages, storage_seq, fbh_batches, fbh_seq,
                            kl_seq, kl_pantry>>

kl_vorraete(member, guild_id, lager) ==
    LET st == ResolveStatus(member, guild_id, TYPE_KL, lager)
        got == The(storage_get(storages, guild_id, TYPE_KL, lager))
        items == pantry_list(kl_pantry, got.id)
    IN  IF st # "ok" THEN Rejected(member, "kl_vorraete", st)
        ELSE /\ last' = [ReplyTo(member) EXCEPT
                           !.cmd = "kl_vorraete", !.status = "ok",
                           !.storage_id = got.id,
                           !.report = IF DOMAIN items = {} THEN [leer |-> TRUE]
                                      ELSE [pantry |-> items]]
             /\ pre' = Snapshot
             /\ UNCHANGED <<tasks, now, storages, storage_seq, guild_settings, fbh_batches,
                            fbh_seq, kl_herb_lots, kl_seq, kl_pantry>>

\* time passes between two commands
TICK == DRY_WINDOW

Tick ==
    /\ now' = now + TICK
    /\ last' = [Reply0 EXCEPT !.cmd = "tick"]
    /\ pre' = Snapshot
    /\ UNCHANGED <<tasks, storages, storage_seq, guild_settings, fbh_batches, fbh_seq,
                   kl_herb_lots, kl_seq, kl_pantry>>

----------------------------------------------------------------------------
(* Inputs of the commands *)

TypInputs == {TYPE_FBH, <<"k", "l", " ">>, <<"X">>}
LagerInputs == {<<"n", "1">>, <<"n", "2", " ">>}
BeuteInputs == {<<"M", "a", "u", "s">>, Fisch_allgemein, <<"R", "a", "t", "t", "e">>}
KrautInputs == {Basil, <<"t", "h", "y", "m", "e", " ">>, Dill}
SaisonInputs == {Blattleere, Blattgruene \o <<" ">>, Sommer}
RezeptInputs == {Mix, Duo, Tee, lower(Mix)}

----------------------------------------------------------------------------
(* The sequential machine: one command at a time, each run to completion,  *)
(* from the empty database                                                 *)

NoHistory ==
    [fbh_batches |-> {}, kl_herb_lots |-> {}, kl_pantry |-> {},
     guild_settings |-> <<>>]

Init ==
    /\ now = 0
    /\ storages = {}
    /\ storage_seq = 0
    /\ guild_settings = <<>>
    /\ fbh_batches = {}
    /\ fbh_seq = 0
    /\ kl_herb_lots = {}
    /\ kl_seq = 0
    /\ kl_pantry = {}
    /\ last = Reply0
    /\ pre = NoHistory
    /\ tasks = <<>>

DoCreate ==
    /\ storage_seq < MaxStorages
    /\ \E m \in Members, g \in Guilds, t \in TypInputs, n \in LagerInputs,
          r \in OwnerRoles : lager_erstellen(m, g, t, n, r)

DoToggle ==
    \E m \in Members, g \in Guilds, a \in BOOLEAN : kl_trocknen(m, g, a)

DoInventar ==
    \E m \in Members, g \in Guilds, t \in TypInputs, n \in LagerInputs :
        inventar_anzeigen(m, g, t, n)

DoFbhAdd ==
    /\ fbh_seq + kl_seq < MaxAdds
    /\ \E m \in Members, g \in Guilds, n \in LagerInputs, b \in BeuteInputs,
          q \in 0 .. MaxQty : fbh_hinzufuegen(m, g, n, b, q)

DoFbhTake ==
    \E m \in Members, g \in Guilds, n \in LagerInputs, b \in BeuteInputs,
       q \in Mengen : fbh_entnehmen(m, g, n, b, q)

DoKlAdd ==
    /\ fbh_seq + kl_seq < MaxAdds
    /\ \E m \in Members, g \in Guilds, n \in LagerInputs, k \in KrautInputs,
          q \in 0 .. MaxQty : kl_hinzufuegen(m, g, n, k, q)

DoKlTake ==
    \E m \in Members, g \in Guilds, n \in LagerInputs, k \in KrautInputs,
       q \in Mengen : kl_entnehmen(m, g, n, k, q)

DoCraft ==
    \E m \in Members, g \in Guilds, n \in LagerInputs, r \in RezeptInputs,
       q \in Mengen : kl_herstellen(m, g, n, r, q)

DoSaison ==
    \E m \in Members, g \in Guilds, s \in SaisonInputs : saison_setzen(m, g, s)

DoVerderb ==
    \E m \in Members, g \in Guilds, a \in BOOLEAN : fbh_saison_verderb(m, g, a)

DoVorraete ==
    \E m \in Members, g \in Guilds, n \in LagerInputs : kl_vorraete(m, g, n)

DoTick == now < MaxTicks * TICK /\ Tick

Next ==
    \/ DoCreate
    \/ DoToggle
    \/ DoInventar
    \/ DoFbhAdd
    \/ DoFbhTake
    \/ DoKlAdd
    \/ DoKlTake
    \/ DoCraft
    \/ DoSaison
    \/ DoVerderb
    \/ DoVorraete
    \/ DoTick

Spec == Init /\ [][Next]_vars

----------------------------------------------------------------------------
(* The two ledgers in depth.  Both start from the registry a moderator     *)
(* has set up with lager_erstellen: an FBH and a KL storage of each of two *)
(* names, bound to the owner role, and the guild's settings row exists    *)
(* with its defaults.  The commands come from a holder of the owner role   *)
(* and carry valid inputs; rows are added to the storages named n1, the    *)
(* inventory of every storage is shown.                                    *)

RegistryAfterSetup ==
    {[id |-> 1, guild_id |-> 1, type |-> TYPE_FBH, name |-> <<"n", "1">>,
      owner_role_id |-> RoleJaeger.id],
     [id |-> 2, guild_id |-> 1, type |-> TYPE_KL, name |-> <<"n", "1">>,
      owner_role_id |-> RoleJaeger.id],
     [id |-> 3, guild_id |-> 1, type |-> TYPE_FBH, name |-> <<"n", "2">>,
      owner_role_id |-> RoleJaeger.id],
     [id |-> 4, guild_id |-> 1, type |-> TYPE_KL, name |-> <<"n", "2">>,
      owner_role_id |-> RoleJaeger.id]}

LedgerLager == {<<"n", "1">>}
LedgerBeute == {<<"M", "a", "u", "s">>, Fisch_allgemein}
LedgerKraut == {Basil, <<"t", "h", "y", "m", "e", " ">>}

InitLedger ==
    /\ now = 0
    /\ storages = RegistryAfterSetup
    /\ storage_seq = Cardinality(RegistryAfterSetup)
    /\ guild_settings = ensure_settings(<<>>, 1)
    /\ fbh_batches = {}
    /\ fbh_seq = 0
    /\ kl_herb_lots = {}
    /\ kl_seq = 0
    /\ kl_pantry = {}
    /\ last = Reply0
    /\ pre = [NoHistory EXCEPT !.guild_settings = ensure_settings(<<>>, 1)]
    /\ tasks = <<>>

FbhAdd ==
    /\ fbh_seq < MaxBatches
    /\ \E g \in Guilds, n \in LedgerLager, b \in LedgerBeute, q \in 1 .. MaxQty :
          fbh_hinzufuegen(Holder, g, n, b, q)

FbhTake ==
    \E g \in Guilds, n \in LedgerLager, b \in LedgerBeute, q \in 1 .. (MaxQty + 1) :
        fbh_entnehmen(Holder, g, n, b, q)

FbhInventar ==
    \E g \in Guilds, n \in LagerInputs : inventar_anzeigen(Holder, g, TYPE_FBH, n)

NextFBH ==
    \/ FbhAdd
    \/ FbhTake
    \/ FbhInventar
    \/ DoTick

SpecFBH == InitLedger /\ [][NextFBH]_vars

KlToggle == \E g \in Guilds, a \in BOOLEAN : kl_trocknen(Moderator, g, a)

KlAdd ==
    /\ kl_seq < MaxLots
    /\ \E g \in Guilds, n \in LedgerLager, k \in LedgerKraut, q \in 1 .. MaxQty :
          kl_hinzufuegen(Holder, g, n, k, q)

KlTake ==
    \E g \in Guilds, n \in LedgerLager, k \in LedgerKraut, q \in 1 .. (MaxQty + 1) :
        kl_entnehmen(Holder, g, n, k, q)

KlCraft ==
    \E g \in Guilds, n \in LedgerLager, r \in DOMAIN KL_RECIPES,
       q \in 1 .. (MaxQty + 1) :
        kl_herstellen(Holder, g, n, r, q)

KlInventar ==
    \E g \in Guilds, n \in LagerInputs : inventar_anzeigen(Holder, g, TYPE_KL, n)

NextKL ==
    \/ KlToggle
    \/ KlAdd
    \/ KlTake
    \/ KlCraft
    \/ KlInventar
    \/ DoTick

SpecKL == InitLedger /\ [][NextKL]_vars

\* both ledgers side by side: the add commands share one bound
BothFbhAdd ==
    /\ fbh_seq + kl_seq < MaxAdds
    /\ \E g \in Guilds, n \in LedgerLager, b \in LedgerBeute, q \in 1 .. MaxQty :
          fbh_hinzufuegen(Holder, g, n, b, q)

BothKlAdd ==
    /\ fbh_seq + kl_seq < MaxAdds
    /\ \E g \in Guilds, n \in LedgerLager, k \in LedgerKraut, q \in 1 .. MaxQty :
          kl_hinzufuegen(Holder, g, n, k, q)

NextBoth ==
    \/ BothFbhAdd
    \/ FbhTake
    \/ FbhInventar
    \/ KlToggle
    \/ BothKlAdd
    \/ KlTake
    \/ KlCraft
    \/ KlInventar
    \/ DoTick

SpecBoth == InitLedger /\ [][NextBoth]_vars

\* the spoilage classification on its own: fbh_status_for_age_days applied
\* to any age, any stored season (and a text that is no season) and both
\* flag values; `last.report` holds the arguments and the result
SaisonValues == DOMAIN SAISON_TIMES \cup {Sommer}

Classify ==
    \E age_days \in 0 .. MaxAge, saison \in SaisonValues, saison_enabled \in BOOLEAN :
        /\ last' = [Reply0 EXCEPT
                      !.cmd = "fbh_status_for_age_days",
                      !.report = [age_days |-> age_days, saison |-> saison,
                                  saison_enabled |-> saison_enabled,
                                  status |-> fbh_status_for_age_days(
                                                 age_days, saison, saison_enabled)]]
        /\ pre' = Snapshot
        /\ UNCHANGED <<tasks, now, storages, storage_seq, guild_settings, fbh_batches,
                       fbh_seq, kl_herb_lots, kl_seq, kl_pantry>>

NextStatus == Classify

SpecStatus == InitLedger /\ [][NextStatus]_vars

\* the pile status: batches are added and taken while four days pass at a
\* time and a moderator sets the season and the seasonal spoilage
PILE_TICK == 4 * DAY

PileTick ==
    /\ now < MaxPileTicks * PILE_TICK
    /\ now' = now + PILE_TICK
    /\ last' = [Reply0 EXCEPT !.cmd = "tick"]
    /\ pre' = Snapshot
    /\ UNCHANGED <<tasks, storages, storage_seq, guild_settings, fbh_batches, fbh_seq,
                   kl_herb_lots, kl_seq, kl_pantry>>

PileSaison == \E g \in Guilds, s \in SaisonInputs : saison_setzen(Moderator, g, s)

PileVerderb == \E g \in Guilds, a \in BOOLEAN : fbh_saison_verderb(Moderator, g, a)

NextPile ==
    \/ BothFbhAdd
    \/ FbhTake
    \/ FbhInventar
    \/ PileSaison
    \/ PileVerderb
    \/ PileTick

SpecPile == InitLedger /\ [][NextPile]_vars

\* the pantry store on its own: pantry_add and pantry_take called on the
\* two KL storages with names of two item keys, one of them written in
\* two ways
PantryItems == {Mix, lower(Mix) \o <<" ">>, Duo}

PantryStorages == {s.id : s \in {x \in RegistryAfterSetup : x.type = TYPE_KL}}

PantryAdd ==
    \E sid \in PantryStorages, item \in PantryItems, q \in 1 .. MaxQty :
        /\ \A p \in kl_pantry :
              (p.storage_id = sid /\ p.item_key = norm_key(item)) =>
                  p.qty + q <= MaxStock
        /\ kl_pantry' = pantry_add(kl_pantry, sid, item, q)
        /\ last' = [Reply0 EXCEPT !.cmd = "pantry_add", !.storage_id = sid,
                                  !.name = item, !.menge = q]
        /\ pre' = Snapshot
        /\ UNCHANGED <<tasks, now, storages, storage_seq, guild_settings, fbh_batches,
                       fbh_seq, kl_herb_lots, kl_seq>>

PantryTake ==
    \E sid \in PantryStorages, item \in PantryItems, q \in 1 .. (MaxQty + 1) :
        LET r == pantry_take(kl_pantry, sid, item, q)
        IN  /\ kl_pantry' = r.tbl
            /\ last' = [Reply0 EXCEPT !.cmd = "pantry_take", !.storage_id = sid,
                                      !.name = item, !.menge = q,
                                      !.removed = r.take]
            /\ pre' = Snapshot
            /\ UNCHANGED <<tasks, now, storages, storage_seq, guild_settings, fbh_batches,
                           fbh_seq, kl_herb_lots, kl_seq>>

NextPantry ==
    \/ PantryAdd
    \/ PantryTake

SpecPantry == InitLedger /\ [][NextPantry]_vars

\* the registry on its own, from the empty database: storages are created
\* and looked up under names that differ in a trailing blank or in case
RegLager == {<<"n", "1">>, <<"n", "1", " ">>, <<"N", "1">>}

RegCreate ==
    \E m \in Members, g \in Guilds, t \in TypInputs, n \in RegLager, r \in OwnerRoles :
        /\ storage_seq < MaxStorages \/ storage_conflict(storages, g, upper(strip(t)), n)
        /\ lager_erstellen(m, g, t, n, r)

RegInventar ==
    \E m \in Members, g \in Guilds, t \in TypInputs, n \in RegLager :
        inventar_anzeigen(m, g, t, n)

NextRegistry ==
    \/ RegCreate
    \/ RegInventar

SpecRegistry == Init /\ [][NextRegistry]_vars

\* the commands at the gate: every member issues every command, with good
\* and bad inputs, on a guild that has the storages FBH n1 and KL n1 and no
\* settings row yet; no storage is created
RegistryGate == {x \in RegistryAfterSetup : x.name = <<"n", "1">>}

InitGate ==
    /\ now = 0
    /\ storages = RegistryGate
    /\ storage_seq = Cardinality(RegistryGate)
    /\ guild_settings = <<>>
    /\ fbh_batches = {}
    /\ fbh_seq = 0
    /\ kl_herb_lots = {}
    /\ kl_seq = 0
    /\ kl_pantry = {}
    /\ last = Reply0
    /\ pre = NoHistory
    /\ tasks = <<>>

GateMengen == {0, 1}
GateBeute == {<<"M", "a", "u", "s">>, <<"R", "a", "t", "t", "e">>}
GateKraut == {Basil, Dill}
GateRezept == {Duo, lower(Mix)}

GateCreate ==
    \E m \in Members, g \in Guilds, t \in TypInputs, n \in LagerInputs, r \in OwnerRoles :
        lager_erstellen(m, g, t, n, r) /\ storages' = storages

GateFbhAdd ==
    /\ fbh_seq + kl_seq < MaxAdds
    /\ \E m \in Members, g \in Guilds, n \in LagerInputs, b \in GateBeute,
          q \in GateMengen : fbh_hinzufuegen(m, g, n, b, q)

GateFbhTake ==
    \E m \in Members, g \in Guilds, n \in LagerInputs, b \in GateBeute,
       q \in GateMengen : fbh_entnehmen(m, g, n, b, q)

GateKlAdd ==
    /\ fbh_seq + kl_seq < MaxAdds
    /\ \E m \in Members, g \in Guilds, n \in LagerInputs, k \in GateKraut,
          q \in GateMengen : kl_hinzufuegen(m, g, n, k, q)

GateKlTake ==
    \E m \in Members, g \in Guilds, n \in LagerInputs, k \in GateKraut,
       q \in GateMengen : kl_entnehmen(m, g, n, k, q)

GateCraft ==
    \E m \in Members, g \in Guilds, n \in LagerInputs, r \in GateRezept,
       q \in GateMengen : kl_herstellen(m, g, n, r, q)

NextGate ==
    \/ GateCreate
    \/ GateFbhAdd
    \/ GateFbhTake
    \/ GateKlAdd
    \/ GateKlTake
    \/ GateCraft
    \/ DoInventar
    \/ DoVorraete
    \/ DoSaison
    \/ DoVerderb
    \/ DoToggle

SpecGate == InitGate /\ [][NextGate]_vars

\* both ledgers with the names of the commands spelled other than in the
\* configuration, and the add commands spelled other than the take
\* commands: in capitals and with widened blanks when adding, in small
\* letters with blanks around when taking
AddBeute == {<<"M", "A", "U", "S", " ", " ", "(", "A", "L", "L", "G",
               "E", "M", "E", "I", "N", ")">>,
             <<"f", "i", "s", "c", "h", " ", "(", "a", "l", "l", "g",
               "e", "m", "e", "i", "n", ")", " ">>}
TakeBeute == {<<" ">> \o lower(Maus_allgemein) \o <<" ">>,
              <<" ", " ">> \o upper(Fisch_allgemein)}
AddKraut == {upper(Basil), <<" ">> \o lower(Thyme)}
TakeKraut == {<<" ">> \o lower(Basil) \o <<" ">>, upper(Thyme) \o <<" ", " ">>}

SpellFbhAdd ==
    /\ fbh_seq + kl_seq < MaxAdds
    /\ \E g \in Guilds, n \in LedgerLager, b \in AddBeute, q \in 1 .. MaxQty :
          fbh_hinzufuegen(Holder, g, n, b, q)

SpellFbhTake ==
    \E g \in Guilds, n \in LedgerLager, b \in TakeBeute, q \in 1 .. (MaxQty + 1) :
        fbh_entnehmen(Holder, g, n, b, q)

SpellKlAdd ==
    /\ fbh_seq + kl_seq < MaxAdds
    /\ \E g \in Guilds, n \in LedgerLager, k \in AddKraut, q \in 1 .. MaxQty :
          kl_hinzufuegen(Holder, g, n, k, q)

SpellKlTake ==
    \E g \in Guilds, n \in LedgerLager, k \in TakeKraut, q \in 1 .. (MaxQty + 1) :
        kl_entnehmen(Holder, g, n, k, q)

SpellCraft ==
    \E g \in Guilds, n \in LedgerLager, r \in {Duo, Mix}, q \in 1 .. MaxQty :
        kl_herstellen(Holder, g, n, r, q)

NextSpell ==
    \/ SpellFbhAdd
    \/ SpellFbhTake
    \/ SpellKlAdd
    \/ SpellKlTake
    \/ SpellCraft
    \/ FbhInventar
    \/ KlInventar

SpecSpell == InitLedger /\ [][NextSpell]_vars

----------------------------------------------------------------------------
(* Commands in flight together.  Every command is a coroutine of one       *)
(* event loop and all share one database connection: a command runs until  *)
(* its next `await`, where another may run.  A task is a take or a craft   *)
(* command; one step of a task is the code from one await of a database    *)
(* statement to the next.  Statements of all tasks act on the same tables  *)
(* (one connection: no isolation between them).  The add commands and the  *)
(* clock are left out of the interleaving: rows are added while no task    *)
(* is in flight.                                                           *)

TaskIds == 1 .. MaxTasks

\* the local variables of a command: pc is the await it is suspended at
IdleTask ==
    [cmd |-> "idle", pc |-> "idle", status |-> "", member |-> 0,
     storage_id |-> 0, name |-> <<>>, menge |-> 0,
     i |-> 0,            \* index of the ingredient the craft is at
     herb |-> <<>>,      \* name the take was called with
     si |-> 0,           \* index into kl_take_states
     rows |-> <<>>,      \* rows fetched by the SELECT and not yet gone through
     to_remove |-> 0, removed |-> 0,
     missing |-> <<>>,
     took |-> <<>>,      \* what each take of the commit pass returned
     found |-> {}]       \* qty of the pantry row pantry_add fetched

Quiet == \A t \in TaskIds : tasks[t].pc = "idle"

InitRace ==
    /\ now = 0
    /\ storages = RegistryAfterSetup
    /\ storage_seq = Cardinality(RegistryAfterSetup)
    /\ guild_settings = ensure_settings(<<>>, 1)
    /\ fbh_batches = {}
    /\ fbh_seq = 0
    /\ kl_herb_lots = {}
    /\ kl_seq = 0
    /\ kl_pantry = {}
    /\ last = Reply0
    /\ pre = [NoHistory EXCEPT !.guild_settings = ensure_settings(<<>>, 1)]
    /\ tasks = [t \in TaskIds |-> IdleTask]

\* a command is invoked: `pre` keeps the tables as the first of the
\* commands in flight found them
Invoked == pre' = IF Quiet THEN Snapshot ELSE pre

\* fbh_entnehmen up to its call of fbh_take
fbh_entnehmen_begin(t, member, guild_id, lager, beute, menge) ==
    LET st == ResolveStatus(member, guild_id, TYPE_FBH, lager)
        got == The(storage_get(storages, guild_id, TYPE_FBH, lager))
        beute2 == apply_aliases_fbh(beute)
        beute3 == canonical(beute2, ALLOWED_FBH_SET)
        status == IF menge <= 0 THEN "Menge"
                  ELSE IF st # "ok" THEN st
                  ELSE IF ~is_allowed(beute2, ALLOWED_FBH_SET) THEN "nicht erlaubt"
                  ELSE "ok"
        task == [IdleTask EXCEPT !.cmd = "fbh_entnehmen", !.member = member.id,
                                 !.menge = menge]
    IN  /\ tasks[t].pc = "idle"
        /\ tasks' = [tasks EXCEPT ![t] =
                        IF status # "ok"
                        THEN [task EXCEPT !.pc = "done", !.status = status]
                        ELSE [task EXCEPT !.pc = "fbh_take_fetch",
                                          !.storage_id = got.id, !.name = beute3,
                                          !.herb = beute3, !.to_remove = menge]]
        /\ Invoked
        /\ UNCHANGED <<now, storages, storage_seq, guild_settings, fbh_batches,
                       fbh_seq, kl_herb_lots, kl_seq, kl_pantry, last>>

\* fbh_take: the SELECT
fbh_take_fetch(t) ==
    /\ tasks[t].pc = "fbh_take_fetch"
    /\ \E batches \in OrderByAddedAt(fbh_take_select(fbh_batches, tasks[t].storage_id,
                                                     tasks[t].herb)) :
          tasks' = [tasks EXCEPT ![t].rows = batches,
                                 ![t].pc = IF batches = <<>> THEN "fbh_take_commit"
                                           ELSE "fbh_take_execute"]
    /\ UNCHANGED <<now, storages, storage_seq, guild_settings, fbh_batches,
                   fbh_seq, kl_herb_lots, kl_seq, kl_pantry, last, pre>>

\* fbh_take: one pass of the loop, the DELETE or UPDATE of the batch it is
\* at, computed from the quantity the SELECT returned
fbh_take_execute(t) ==
    LET me == tasks[t]
        r == fbh_take_loop(fbh_batches, <<Head(me.rows)>>, me.to_remove, me.removed)
        left == me.to_remove - (r.removed - me.removed)
    IN  /\ me.pc = "fbh_take_execute"
        /\ fbh_batches' = r.tbl
        /\ tasks' = [tasks EXCEPT ![t].rows = Tail(me.rows),
                                  ![t].removed = r.removed,
                                  ![t].to_remove = left,
                                  ![t].pc = IF Tail(me.rows) = <<>> \/ left <= 0
                                            THEN "fbh_take_commit"
                                            ELSE "fbh_take_execute"]
        /\ UNCHANGED <<now, storages, storage_seq, guild_settings, fbh_seq,
                       kl_herb_lots, kl_seq, kl_pantry, last, pre>>

\* fbh_take: the commit, and the reply of fbh_entnehmen
fbh_take_commit(t) ==
    /\ tasks[t].pc = "fbh_take_commit"
    /\ tasks' = [tasks EXCEPT ![t].pc = "done", ![t].status = "ok"]
    /\ UNCHANGED <<now, storages, storage_seq, guild_settings, fbh_batches,
                   fbh_seq, kl_herb_lots, kl_seq, kl_pantry, last, pre>>

\* kl_entnehmen up to its call of kl_apply_drying_if_enabled
kl_entnehmen_begin(t, member, guild_id, lager, kraut, menge) ==
    LET st == ResolveStatus(member, guild_id, TYPE_KL, lager)
        got == The(storage_get(storages, guild_id, TYPE_KL, lager))
        kraut2 == canonical(kraut, ALLOWED_KL_SET)
        status == IF menge <= 0 THEN "Menge"
                  ELSE IF st # "ok" THEN st
                  ELSE IF ~is_allowed(kraut, ALLOWED_KL_SET) THEN "nicht erlaubt"
                  ELSE "ok"
        task == [IdleTask EXCEPT !.cmd = "kl_entnehmen", !.member = member.id,
                                 !.menge = menge]
    IN  /\ tasks[t].pc = "idle"
        /\ tasks' = [tasks EXCEPT ![t] =
                        IF status # "ok"
                        THEN [task EXCEPT !.pc = "done", !.status = status]
                        ELSE [task EXCEPT !.pc = "drying",
                                          !.storage_id = got.id, !.name = kraut2,
                                          !.herb = kraut2, !.to_remove = menge]]
        /\ Invoked
        /\ UNCHANGED <<now, storages, storage_seq, guild_settings, fbh_batches,
                       fbh_seq, kl_herb_lots, kl_seq, kl_pantry, last>>

\* kl_herstellen up to its call of kl_apply_drying_if_enabled
kl_herstellen_begin(t, member, guild_id, lager, rezept, menge) ==
    LET st == ResolveStatus(member, guild_id, TYPE_KL, lager)
        got == The(storage_get(storages, guild_id, TYPE_KL, lager))
        status == IF menge <= 0 THEN "Menge"
                  ELSE IF st # "ok" THEN st
                  ELSE IF rezept \notin DOMAIN KL_RECIPES THEN "Rezept nicht gefunden"
                  ELSE "ok"
        task == [IdleTask EXCEPT !.cmd = "kl_herstellen", !.member = member.id,
                                 !.menge = menge]
    IN  /\ tasks[t].pc = "idle"
        /\ tasks' = [tasks EXCEPT ![t] =
                        IF status # "ok"
                        THEN [task EXCEPT !.pc = "done", !.status = status]
                        ELSE [task EXCEPT !.pc = "drying",
                                          !.storage_id = got.id, !.name = rezept]]
        /\ Invoked
        /\ UNCHANGED <<now, storages, storage_seq, guild_settings, fbh_batches,
                       fbh_seq, kl_herb_lots, kl_seq, kl_pantry, last>>

\* kl_apply_drying_if_enabled, called by kl_entnehmen and kl_herstellen
drying(t) ==
    LET me == tasks[t]
        aged == kl_apply_drying_if_enabled(guild_settings, kl_herb_lots, 1,
                                           me.storage_id, now)
    IN  /\ me.pc = "drying"
        /\ guild_settings' = aged.gs
        /\ kl_herb_lots' = aged.lots
        /\ tasks' = [tasks EXCEPT ![t] =
                        IF me.cmd = "kl_entnehmen"
                        THEN [me EXCEPT !.pc = "kl_take_herb_fetch", !.si = 1]
                        ELSE [me EXCEPT !.pc = "check", !.i = 1]]
        /\ UNCHANGED <<now, storages, storage_seq, fbh_batches, fbh_seq, kl_seq,
                       kl_pantry, last, pre>>

\* kl_herstellen: one pass of the validation loop, with the SELECT of
\* kl_total_available for the ingredient it is at
kl_herstellen_check(t) ==
    LET me == tasks[t]
        recipe == KL_RECIPES[me.name]
        missing == me.missing \o check_availability(kl_herb_lots, me.storage_id,
                                                    <<recipe[me.i]>>, me.menge, 1)
    IN  /\ me.pc = "check"
        /\ tasks' = [tasks EXCEPT ![t] =
                        IF me.i < Len(recipe)
                        THEN [me EXCEPT !.missing = missing, !.i = me.i + 1]
                        ELSE IF missing # <<>>
                        THEN [me EXCEPT !.missing = missing, !.pc = "done",
                                        !.status = "nicht genug Zutaten"]
                        ELSE [me EXCEPT
                                !.pc = "kl_take_herb_fetch", !.i = 1, !.si = 1,
                                !.herb = canonical(recipe[1][1], ALLOWED_KL_SET),
                                !.to_remove = recipe[1][2] * me.menge,
                                !.removed = 0]]
        /\ UNCHANGED <<now, storages, storage_seq, guild_settings, fbh_batches,
                       fbh_seq, kl_herb_lots, kl_seq, kl_pantry, last, pre>>

\* where kl_take_herb goes on after the lots of one state: to the SELECT
\* of the next state while something is left to remove, else to the commit
kl_take_herb_next(me, left) ==
    IF me.si < Len(kl_take_states) /\ left > 0
    THEN [me EXCEPT !.pc = "kl_take_herb_fetch", !.si = me.si + 1]
    ELSE [me EXCEPT !.pc = "kl_take_herb_commit"]

\* kl_take_herb: the SELECT of the lots of one state
kl_take_herb_fetch(t) ==
    LET me == tasks[t]
    IN  /\ me.pc = "kl_take_herb_fetch"
        /\ \E lots \in OrderByAddedAt(kl_take_select(kl_herb_lots, me.storage_id,
                                                     me.herb, kl_take_states[me.si])) :
              tasks' = [tasks EXCEPT ![t] =
                           IF lots # <<>>
                           THEN [me EXCEPT !.rows = lots, !.pc = "kl_take_herb_execute"]
                           ELSE kl_take_herb_next(me, me.to_remove)]
        /\ UNCHANGED <<now, storages, storage_seq, guild_settings, fbh_batches,
                       fbh_seq, kl_herb_lots, kl_seq, kl_pantry, last, pre>>

\* kl_take_herb: one pass of the inner loop, the DELETE or UPDATE of the
\* lot it is at, computed from the quantity the SELECT returned
kl_take_herb_execute(t) ==
    LET me == tasks[t]
        r == kl_take_loop(kl_herb_lots, <<Head(me.rows)>>, me.to_remove, me.removed)
        left == me.to_remove - (r.removed - me.removed)
        me2 == [me EXCEPT !.rows = Tail(me.rows), !.removed = r.removed,
                          !.to_remove = left]
    IN  /\ me.pc = "kl_take_herb_execute"
        /\ kl_herb_lots' = r.tbl
        /\ tasks' = [tasks EXCEPT ![t] =
                        IF Tail(me.rows) # <<>> /\ left > 0 THEN me2
                        ELSE kl_take_herb_next([me2 EXCEPT !.rows = <<>>], left)]
        /\ UNCHANGED <<now, storages, storage_seq, guild_settings, fbh_batches,
                       fbh_seq, kl_seq, kl_pantry, last, pre>>

\* kl_take_herb: the commit, and the reply of kl_entnehmen
kl_entnehmen_reply(t) ==
    /\ tasks[t].pc = "kl_take_herb_commit"
    /\ tasks[t].cmd = "kl_entnehmen"
    /\ tasks' = [tasks EXCEPT ![t].pc = "done", ![t].status = "ok"]
    /\ UNCHANGED <<now, storages, storage_seq, guild_settings, fbh_batches,
                   fbh_seq, kl_herb_lots, kl_seq, kl_pantry, last, pre>>

\* mutant of kl_herstellen_subtract: the amount the take returned is not
\* looked at
kl_herstellen_subtract_unchecked(t) ==
    LET me == tasks[t]
        recipe == KL_RECIPES[me.name]
        me2 == [me EXCEPT !.took = Append(me.took, me.removed)]
    IN  /\ me.pc = "kl_take_herb_commit"
        /\ me.cmd = "kl_herstellen"
        /\ tasks' = [tasks EXCEPT ![t] =
                        IF me.i < Len(recipe)
                        THEN [me2 EXCEPT
                                !.pc = "kl_take_herb_fetch", !.i = me.i + 1, !.si = 1,
                                !.herb = canonical(recipe[me.i + 1][1], ALLOWED_KL_SET),
                                !.to_remove = recipe[me.i + 1][2] * me.menge,
                                !.removed = 0]
                        ELSE [me2 EXCEPT !.pc = "pantry_add_fetch"]]
        /\ UNCHANGED <<now, storages, storage_seq, guild_settings, fbh_batches,
                       fbh_seq, kl_herb_lots, kl_seq, kl_pantry, last, pre>>

\* kl_take_herb: the commit, and the commit pass of kl_herstellen after
\* the take of ingredient i has returned
kl_herstellen_subtract(t) ==
    LET me == tasks[t]
        recipe == KL_RECIPES[me.name]
        need == recipe[me.i][2] * me.menge
        me2 == [me EXCEPT !.took = Append(me.took, me.removed)]
    IN  /\ me.pc = "kl_take_herb_commit"
        /\ me.cmd = "kl_herstellen"
        /\ tasks' = [tasks EXCEPT ![t] =
                        IF me.removed # need
                        THEN [me2 EXCEPT !.pc = "done",
                                         !.status = "unerwarteter Fehler"]
                        ELSE IF me.i < Len(recipe)
                        THEN [me2 EXCEPT
                                !.pc = "kl_take_herb_fetch", !.i = me.i + 1, !.si = 1,
                                !.herb = canonical(recipe[me.i + 1][1], ALLOWED_KL_SET),
                                !.to_remove = recipe[me.i + 1][2] * me.menge,
                                !.removed = 0]
                        ELSE [me2 EXCEPT !.pc = "pantry_add_fetch"]]
        /\ UNCHANGED <<now, storages, storage_seq, guild_settings, fbh_batches,
                       fbh_seq, kl_herb_lots, kl_seq, kl_pantry, last, pre>>

\* pantry_add: the SELECT of the row of the product
pantry_add_fetch(t) ==
    LET me == tasks[t]
    IN  /\ me.pc = "pantry_add_fetch"
        /\ tasks' = [tasks EXCEPT
                        ![t].found = {p.qty : p \in {x \in kl_pantry :
                                          /\ x.storage_id = me.storage_id
                                          /\ x.item_key = norm_key(me.name)}},
                        ![t].pc = "pantry_add_execute"]
        /\ UNCHANGED <<now, storages, storage_seq, guild_settings, fbh_batches,
                       fbh_seq, kl_herb_lots, kl_seq, kl_pantry, last, pre>>

\* pantry_add: the UPDATE with the quantity computed from the row fetched,
\* or the INSERT, which raises when the row is there by now (PRIMARY KEY)
pantry_add_execute(t) ==
    LET me == tasks[t]
        k == norm_key(me.name)
        hit(p) == p.storage_id = me.storage_id /\ p.item_key = k
    IN  /\ me.pc = "pantry_add_execute"
        /\ IF me.found # {}
           THEN /\ kl_pantry' = {IF hit(p) THEN [p EXCEPT !.qty = The(me.found) + me.menge]
                                 ELSE p : p \in kl_pantry}
                /\ tasks' = [tasks EXCEPT ![t].pc = "pantry_add_commit"]
           ELSE IF \E p \in kl_pantry : hit(p)
           THEN /\ kl_pantry' = kl_pantry
                /\ tasks' = [tasks EXCEPT ![t].pc = "done",
                                          ![t].status = "IntegrityError"]
           ELSE /\ kl_pantry' = kl_pantry \cup
                                   {[storage_id |-> me.storage_id, item_key |-> k,
                                     item_display |-> strip(me.name),
                                     qty |-> me.menge]}
                /\ tasks' = [tasks EXCEPT ![t].pc = "pantry_add_commit"]
        /\ UNCHANGED <<now, storages, storage_seq, guild_settings, fbh_batches,
                       fbh_seq, kl_herb_lots, kl_seq, last, pre>>

\* pantry_add: the commit, and the reply of kl_herstellen
pantry_add_commit(t) ==
    /\ tasks[t].pc = "pantry_add_commit"
    /\ tasks' = [tasks EXCEPT ![t].pc = "done", ![t].status = "ok"]
    /\ UNCHANGED <<now, storages, storage_seq, guild_settings, fbh_batches,
                   fbh_seq, kl_herb_lots, kl_seq, kl_pantry, last, pre>>

\* the inputs of the commands in flight
RaceBeute == {<<"M", "a", "u", "s">>}
RaceKraut == {Basil, <<"t", "h", "y", "m", "e", " ">>}
RaceRezept == {Mix}

\* rows are added while no command is in flight
RaceFbhAdd ==
    /\ Quiet
    /\ fbh_seq + kl_seq < MaxAdds
    /\ \E g \in Guilds, n \in LedgerLager, b \in RaceBeute, q \in 1 .. MaxQty :
          fbh_hinzufuegen(Holder, g, n, b, q)

RaceKlAdd ==
    /\ Quiet
    /\ fbh_seq + kl_seq < MaxAdds
    /\ \E g \in Guilds, n \in LedgerLager, k \in RaceKraut, q \in 1 .. MaxQty :
          kl_hinzufuegen(Holder, g, n, k, q)

RaceFbhTake ==
    \E t \in TaskIds, g \in Guilds, n \in LedgerLager, b \in RaceBeute,
       q \in 1 .. MaxQty :
        fbh_entnehmen_begin(t, Holder, g, n, b, q)

RaceKlTake ==
    \E t \in TaskIds, g \in Guilds, n \in LedgerLager, k \in RaceKraut,
       q \in 1 .. MaxQty :
        kl_entnehmen_begin(t, Holder, g, n, k, q)

RaceCraft ==
    \E t \in TaskIds, g \in Guilds, n \in LedgerLager, r \in RaceRezept :
        kl_herstellen_begin(t, Holder, g, n, r, 1)

\* the replies are read: the tasks that are done are forgotten
RaceDone ==
    /\ \A t \in TaskIds : tasks[t].pc \in {"idle", "done"}
    /\ \E t \in TaskIds : tasks[t].pc = "done"
    /\ tasks' = [t \in TaskIds |-> IdleTask]
    /\ UNCHANGED <<now, storages, storage_seq, guild_settings, fbh_batches,
                   fbh_seq, kl_herb_lots, kl_seq, kl_pantry, last, pre>>

NextRace ==
    \/ RaceFbhAdd
    \/ RaceKlAdd
    \/ RaceFbhTake
    \/ RaceKlTake
    \/ RaceCraft
    \/ \E t \in TaskIds : fbh_take_fetch(t)
    \/ \E t \in TaskIds : fbh_take_execute(t)
    \/ \E t \in TaskIds : fbh_take_commit(t)
    \/ \E t \in TaskIds : drying(t)
    \/ \E t \in TaskIds : kl_herstellen_check(t)
    \/ \E t \in TaskIds : kl_take_herb_fetch(t)
    \/ \E t \in TaskIds : kl_take_herb_execute(t)
    \/ \E t \in TaskIds : kl_entnehmen_reply(t)
    \/ \E t \in TaskIds : kl_herstellen_subtract(t)
    \/ \E t \in TaskIds : pantry_add_fetch(t)
    \/ \E t \in TaskIds : pantry_add_execute(t)
    \/ \E t \in TaskIds : pantry_add_commit(t)
    \/ RaceDone

SpecRace == InitRace /\ [][NextRace]_vars

\* crafts of one recipe in flight together, on a store that is filled
\* while no command is in flight
ProduceKraut == {Basil}
ProduceRezept == {Duo}

ProduceAdd ==
    /\ Quiet
    /\ kl_seq < MaxBatches
    /\ \E g \in Guilds, n \in LedgerLager, k \in ProduceKraut, q \in 1 .. MaxQty :
          kl_hinzufuegen(Holder, g, n, k, q)

ProduceCraft ==
    \E t \in TaskIds, g \in Guilds, n \in LedgerLager, r \in ProduceRezept,
       q \in 1 .. MaxQty :
        kl_herstellen_begin(t, Holder, g, n, r, q)

NextProduce ==
    \/ ProduceAdd
    \/ ProduceCraft
    \/ \E t \in TaskIds : drying(t)
    \/ \E t \in TaskIds : kl_herstellen_check(t)
    \/ \E t \in TaskIds : kl_take_herb_fetch(t)
    \/ \E t \in TaskIds : kl_take_herb_execute(t)
    \/ \E t \in TaskIds : kl_herstellen_subtract(t)
    \/ \E t \in TaskIds : pantry_add_fetch(t)
    \/ \E t \in TaskIds : pantry_add_execute(t)
    \/ \E t \in TaskIds : pantry_add_commit(t)
    \/ RaceDone

SpecProduce == InitRace /\ [][NextProduce]_vars

----------------------------------------------------------------------------
(* Properties.  Each is stated on the state a command leaves: `last` says  *)
(* which command ran and what it replied, `pre` what it found.             *)

Max(a, b) == IF a >= b THEN a ELSE b

\* the rows of `tbl` with the id of row r (none when r was deleted)
SameId(tbl, r) == {x \in tbl : x.id = r.id}

Deleted(tbl, r) == SameId(tbl, r) = {}

\* what row r of the table before gave up: its quantity when it was
\* deleted, else the difference of its quantities
GaveUp(tbl, r) ==
    IF Deleted(tbl, r) THEN r.qty ELSE r.qty - The(SameId(tbl, r)).qty

\* the sum of the quantities of ord[1] .. ord[n]
RECURSIVE QtyPrefix(_, _)
QtyPrefix(ord, n) == IF n = 0 THEN 0 ELSE ord[n].qty + QtyPrefix(ord, n - 1)

\* the sum of the quantities of a set of rows
RECURSIVE Total(_)
Total(rows) ==
    IF rows = {} THEN 0
    ELSE LET r == CHOOSE x \in rows : TRUE IN r.qty + Total(rows \ {r})

\* the enumerations of a set of rows in which no row comes before an older one
OldestFirst(rows) ==
    {ord \in [1 .. Cardinality(rows) -> rows] :
        /\ \A r \in rows : \E i \in DOMAIN ord : ord[i] = r
        /\ \A i, j \in DOMAIN ord : ord[i].added_at < ord[j].added_at => i < j}

FbhTook == last.cmd = "fbh_entnehmen" /\ last.status = "ok"

KlTook == last.cmd = "kl_entnehmen" /\ last.status = "ok"

\* the lots of the storage and key the last kl_entnehmen worked on, as it
\* found them
KlTakeKeyRows ==
    {l \in pre.kl_herb_lots : /\ l.storage_id = last.storage_id
                              /\ l.herb_key = norm_key(last.name)}

\* the rows of that storage and key now
FbhKeyRowsNow ==
    {b \in fbh_batches : /\ b.storage_id = last.storage_id
                         /\ b.item_key = norm_key(last.name)}

KlKeyRowsNow ==
    {l \in kl_herb_lots : /\ l.storage_id = last.storage_id
                          /\ l.herb_key = norm_key(last.name)}

\* the batches of the storage and key the last fbh_entnehmen worked on, as
\* it found them
FbhTakeKeyRows ==
    {b \in pre.fbh_batches : /\ b.storage_id = last.storage_id
                             /\ b.item_key = norm_key(last.name)}

\* C1: fbh_take is FIFO per item key.  After fbh_entnehmen(storage, key, q)
\* (1) a batch of the key was reduced or deleted only if every batch of the
\* key with a smaller added_at was deleted, (2) at most one batch of the key
\* is left with a reduced quantity, (3) in some oldest-first order each
\* batch gave up min(what was left of the request, its quantity), and a
\* reduced batch is the same row (same id, key, added_at) with less in it.
C1_FifoTake ==
    FbhTook =>
        LET P == FbhTakeKeyRows
            q == last.menge
        IN  /\ \A b \in P :
                GaveUp(fbh_batches, b) > 0 =>
                    \A o \in P : o.added_at < b.added_at => Deleted(fbh_batches, o)
            /\ Cardinality({b \in P : /\ ~Deleted(fbh_batches, b)
                                      /\ GaveUp(fbh_batches, b) > 0}) <= 1
            /\ \E ord \in OldestFirst(P) :
                \A i \in DOMAIN ord :
                    GaveUp(fbh_batches, ord[i]) =
                        Min(ord[i].qty, Max(0, q - QtyPrefix(ord, i - 1)))
            /\ \A b \in P :
                ~Deleted(fbh_batches, b) =>
                    The(SameId(fbh_batches, b)) =
                        [b EXCEPT !.qty = b.qty - GaveUp(fbh_batches, b)]
            /\ \A x \in fbh_batches : \E b \in pre.fbh_batches : b.id = x.id

\* C1 witness: an older batch of 1 and a newer batch of 2 of one key, take 2:
\* the older batch is gone, the newer one is left with 1
C1_Witness ==
    /\ FbhTook
    /\ last.menge = 2
    /\ last.removed = 2
    /\ \E a, b \in FbhTakeKeyRows :
        /\ a.added_at < b.added_at
        /\ a.qty = 1
        /\ b.qty = 2
        /\ FbhTakeKeyRows = {a, b}
        /\ Deleted(fbh_batches, a)
        /\ [b EXCEPT !.qty = 1] \in fbh_batches

\* C2: a take with q > 0 never fails and returns min(q, total of the key
\* before); the key's total afterwards is the total before minus what was
\* returned, and no row of the key remains when q is at least the total.
\* For fbh_entnehmen and kl_entnehmen alike.
C2_TakeReturnsMin ==
    /\ last.cmd = "fbh_entnehmen" =>
        /\ last.status = "ok"
        /\ last.removed = Min(last.menge, Total(FbhTakeKeyRows))
        /\ Total(FbhKeyRowsNow) = Total(FbhTakeKeyRows) - last.removed
        /\ last.menge >= Total(FbhTakeKeyRows) => FbhKeyRowsNow = {}
    /\ last.cmd = "kl_entnehmen" =>
        /\ last.status = "ok"
        /\ last.removed = Min(last.menge, Total(KlTakeKeyRows))
        /\ Total(KlKeyRowsNow) = Total(KlTakeKeyRows) - last.removed
        /\ last.menge >= Total(KlTakeKeyRows) => KlKeyRowsNow = {}

\* C2 witness: 3 asked of a herb with two lots of 1 each: 2 returned, no
\* lot of the herb left
C2_Witness ==
    /\ KlTook
    /\ last.menge = 3
    /\ last.removed = 2
    /\ Cardinality(KlTakeKeyRows) = 2
    /\ KlKeyRowsNow = {}

\* the keys with a batch in storage sid
FbhKeysOf(sid) == {b.item_key : b \in {x \in fbh_batches : x.storage_id = sid}}

\* C3: every stored batch and every stored lot has quantity > 0, and the
\* totals a command reports are the sums over the live rows: the FBH
\* inventory lists every key with its sum (and says "leer" when there is no
\* batch), the KL inventory lists per state every herb with its sum, and
\* the `have` of a failed craft is the sum over the herb's lots.
C3_PositiveRowsExactTotals ==
    /\ \A b \in fbh_batches : b.qty > 0
    /\ \A l \in kl_herb_lots : l.qty > 0
    /\ (last.cmd = "inventar_anzeigen" /\ last.status = "ok" /\ last.name = TYPE_FBH) =>
        LET sid == last.storage_id
        IN  IF FbhKeysOf(sid) = {} THEN last.report = [leer |-> TRUE]
            ELSE /\ DOMAIN last.report.totals = FbhKeysOf(sid)
                 /\ \A k \in FbhKeysOf(sid) :
                      last.report.totals[k] =
                          Total({b \in fbh_batches : b.storage_id = sid /\ b.item_key = k})
    /\ (last.cmd = "inventar_anzeigen" /\ last.status = "ok" /\ last.name = TYPE_KL) =>
        LET sid == last.storage_id
            of(st) == {l \in kl_herb_lots : l.storage_id = sid /\ l.state = st}
            ok(rep, st) ==
                /\ DOMAIN rep = {l.herb_display : l \in of(st)}
                /\ \A d \in DOMAIN rep :
                      rep[d] = Total({l \in of(st) : l.herb_display = d})
        IN  ok(last.report.fresh, FRISCH) /\ ok(last.report.dried, GETROCKNET)
    /\ (last.cmd = "kl_herstellen" /\ last.status = "nicht genug Zutaten") =>
        \A i \in DOMAIN last.missing :
            last.missing[i].kind = "fehlt" =>
                last.missing[i].have =
                    Total({l \in kl_herb_lots :
                             /\ l.storage_id = last.storage_id
                             /\ l.herb_key = norm_key(last.missing[i].herb_name)})

\* C3 witness: after a take that drained one batch and reduced another, the
\* FBH inventory reports the key with what is left
C3_Witness ==
    /\ last.cmd = "inventar_anzeigen"
    /\ last.status = "ok"
    /\ last.name = TYPE_FBH
    /\ \E b \in fbh_batches :
        /\ b.storage_id = last.storage_id
        /\ b.id = 2
        /\ b.qty = 1
        /\ fbh_seq = 2
        /\ Cardinality(fbh_batches) = 1
        /\ last.report.totals[b.item_key] = 1

CraftFailed == last.cmd = "kl_herstellen" /\ last.status = "nicht genug Zutaten"

\* the craft passed validation and entered the subtract pass
CraftCommitted ==
    last.cmd = "kl_herstellen" /\ last.status \in {"ok", "unerwarteter Fehler"}

\* the herb keys with a lot, before or after the last command
HerbKeys == {l.herb_key : l \in kl_herb_lots \cup pre.kl_herb_lots}

StorageIds == {s.id : s \in storages}

\* the total of a herb key in a storage: Fresh and Dried lots together
Available(tbl, sid, k) == Total({l \in tbl : l.storage_id = sid /\ l.herb_key = k})

\* C4: a craft that fails validation leaves the total (Fresh + Dried) of
\* every herb of every storage and every pantry quantity as they were.
C4_FailedCraftKeepsTotals ==
    CraftFailed =>
        /\ \A sid \in StorageIds, k \in HerbKeys :
              Available(kl_herb_lots, sid, k) = Available(pre.kl_herb_lots, sid, k)
        /\ kl_pantry = pre.kl_pantry

\* C4 witness: a craft of Mix x 1 failed on Thyme only, with the 2 Basil it
\* needs in store and a pantry that already holds a product
C4_Witness ==
    /\ CraftFailed
    /\ last.name = Mix
    /\ last.menge = 1
    /\ Len(last.missing) = 1
    /\ Available(kl_herb_lots, last.storage_id, norm_key(Basil)) = 2
    /\ kl_pantry # {}

\* the auto-drying toggle as the last command found it
ToggleBefore ==
    1 \in DOMAIN pre.guild_settings /\ pre.guild_settings[1].kl_trocknen

\* C5 as the specification states it: a craft that fails validation leaves
\* every lot row and every pantry row identical, whatever the toggle and
\* the lots' ages.
C5_FailedCraftZeroMutation ==
    CraftFailed => kl_herb_lots = pre.kl_herb_lots /\ kl_pantry = pre.kl_pantry

\* C5 as the code has it: a craft that fails validation leaves every
\* pantry row identical and every lot row with its id, storage, key,
\* quantity and added-at; a lot's state changes only from Fresh to Dried,
\* and only for a lot of the crafting storage that is at least 7 days old
\* while the toggle is enabled.  With the toggle disabled every lot row is
\* identical.
C5_FailedCraftAgesOnly ==
    CraftFailed =>
        /\ kl_pantry = pre.kl_pantry
        /\ {l.id : l \in kl_herb_lots} = {l.id : l \in pre.kl_herb_lots}
        /\ \A l \in pre.kl_herb_lots :
              \/ l \in kl_herb_lots
              \/ /\ [l EXCEPT !.state = GETROCKNET] \in kl_herb_lots
                 /\ l.state = FRISCH
                 /\ ToggleBefore
                 /\ l.storage_id = last.storage_id
                 /\ now - l.added_at >= DRY_WINDOW
        /\ ~ToggleBefore => kl_herb_lots = pre.kl_herb_lots

\* C5 witness: a failed craft found a Fresh lot and left it Dried
C5_Witness ==
    /\ CraftFailed
    /\ \E l \in pre.kl_herb_lots :
          /\ l.state = FRISCH
          /\ l \notin kl_herb_lots
          /\ [l EXCEPT !.state = GETROCKNET] \in kl_herb_lots

\* the recipe of the last craft
LastRecipe == KL_RECIPES[last.name]

\* ingredient i of the last craft is not in the allowed herbs
NotAllowed(i) ==
    \A h \in ALLOWED_KL_HERBS : norm_key(h) # norm_key(LastRecipe[i][1])

\* what ingredient i of the last craft needs, and what the table has of it
Need(i) == LastRecipe[i][2] * last.menge

Have(tbl, i) == Available(tbl, last.storage_id, norm_key(LastRecipe[i][1]))

\* the ingredients of the last craft that fail validation against tbl
Failing(tbl) ==
    {i \in DOMAIN LastRecipe : NotAllowed(i) \/ Have(tbl, i) < Need(i)}

\* C6: validation looks at every ingredient.  The report of a failed craft
\* has one entry per failing ingredient, in the order of the recipe: "nicht
\* erlaubt" for one that is not allowed, and for an allowed one that is
\* short the shortfall need - have with need = per-unit quantity x
\* multiplier.  No allowed and sufficient ingredient is listed, and a craft
\* goes past validation only when no ingredient fails.
C6_ReportListsExactlyFailing ==
    /\ CraftFailed =>
        /\ Failing(pre.kl_herb_lots) # {}
        /\ \E f \in [DOMAIN last.missing -> Failing(pre.kl_herb_lots)] :
              /\ \A i \in Failing(pre.kl_herb_lots) :
                    \E j \in DOMAIN last.missing : f[j] = i
              /\ \A j, k \in DOMAIN last.missing : j < k => f[j] < f[k]
              /\ \A j \in DOMAIN last.missing :
                    LET e == last.missing[j]
                    IN  /\ e.herb_name = LastRecipe[f[j]][1]
                        /\ IF NotAllowed(f[j]) THEN e.kind = "nicht erlaubt"
                           ELSE /\ e.kind = "fehlt"
                                /\ e.need = Need(f[j])
                                /\ e.have = Have(pre.kl_herb_lots, f[j])
                                /\ e.fehlt = Need(f[j]) - Have(pre.kl_herb_lots, f[j])
    /\ CraftCommitted => Failing(pre.kl_herb_lots) = {}

\* C6 witness: Tee x 1 with 1 Thyme in store: the first ingredient is not
\* allowed and the second is short by 1, and both are reported
C6_Witness ==
    /\ CraftFailed
    /\ last.name = Tee
    /\ Len(last.missing) = 2
    /\ last.missing[1].kind = "nicht erlaubt"
    /\ last.missing[2].kind = "fehlt"
    /\ last.missing[2].fehlt = 1
    /\ last.missing[2].have = 1

\* the pantry quantity of an item in a storage (0 when there is no row)
PantryQty(tbl, sid, item) ==
    Total({p \in tbl : p.storage_id = sid /\ p.item_key = norm_key(item)})

\* C7 as the specification states it: a craft whose every ingredient is
\* allowed and sufficient reduces the total of each ingredient by per-unit
\* quantity x multiplier, leaves the other totals as they were and adds the
\* multiplier to the pantry quantity of the recipe.
C7_CraftConsumesAndProduces ==
    (/\ last.cmd = "kl_herstellen"
     /\ last.status \in {"ok", "unerwarteter Fehler", "nicht genug Zutaten"}
     /\ Failing(pre.kl_herb_lots) = {}) =>
        /\ \A i \in DOMAIN LastRecipe :
              Have(kl_herb_lots, i) = Have(pre.kl_herb_lots, i) - Need(i)
        /\ \A sid \in StorageIds, k \in HerbKeys :
              (\A i \in DOMAIN LastRecipe :
                    sid # last.storage_id \/ k # norm_key(LastRecipe[i][1])) =>
                  Available(kl_herb_lots, sid, k) = Available(pre.kl_herb_lots, sid, k)
        /\ PantryQty(kl_pantry, last.storage_id, last.name) =
              PantryQty(pre.kl_pantry, last.storage_id, last.name) + last.menge
        /\ \A p \in pre.kl_pantry :
              (p.storage_id # last.storage_id \/ p.item_key # norm_key(last.name)) =>
                  p \in kl_pantry

\* the recipes no two ingredients of which have the same herb key
DistinctKeys(r) ==
    \A i, j \in DOMAIN KL_RECIPES[r] :
        i # j => norm_key(KL_RECIPES[r][i][1]) # norm_key(KL_RECIPES[r][j][1])

\* what C7 states, for the recipes with distinct herb keys only
C7_DistinctKeysOnly ==
    (last.cmd = "kl_herstellen" /\ last.name \in DOMAIN KL_RECIPES) =>
        (DistinctKeys(last.name) => C7_CraftConsumesAndProduces)

\* a craft of a recipe with distinct herb keys went through
C7_DistinctKeysReached ==
    last.cmd = "kl_herstellen" /\ last.status = "ok" /\ last.name = Mix

\* the state a lot of the table before has when the take of the last
\* kl_entnehmen reads it
StateAtTake(l) ==
    IF /\ ToggleBefore
       /\ l.storage_id = last.storage_id
       /\ now - l.added_at >= DRY_WINDOW
    THEN GETROCKNET
    ELSE l.state

Cutoffs == {-1, 0, TICK - 1, TICK}

\* lot l of storage sid is Fresh and was added at or before cutoff c
Due(l, sid, c) == l.storage_id = sid /\ l.state = FRISCH /\ l.added_at <= c

KlInventarDone ==
    last.cmd = "inventar_anzeigen" /\ last.status = "ok" /\ last.name = TYPE_KL

\* the total the report of the last KL inventory gives for a herb under
\* Dried (0 when the herb is not listed)
ReportedDried(d) ==
    IF d \in DOMAIN last.report.dried THEN last.report.dried[d] ELSE 0

\* C9: kl_mark_dried_older_than(storage, cutoff) turns the Fresh lots of
\* the storage added at or before the cutoff into Dried and leaves every
\* other lot as it is; a lot it turns keeps every field but the state, and
\* no row is added or removed.  Applied again, with the same or a later
\* cutoff, it leaves the lots that are Dried as they are.  And with the
\* toggle enabled, the KL inventory of a storage reports as Dried, with
\* their quantities, the lots that were Dried or are Fresh and at least 7
\* days old, and leaves the lots of the other storages as they were.
C9_AgingExactIdempotent ==
    /\ \A sid \in StorageIds, c \in Cutoffs :
          LET R == kl_mark_dried_older_than(kl_herb_lots, sid, c)
          IN  /\ \A l \in kl_herb_lots :
                    IF Due(l, sid, c) THEN [l EXCEPT !.state = GETROCKNET] \in R
                    ELSE l \in R
              /\ Cardinality(R) = Cardinality(kl_herb_lots)
              /\ kl_mark_dried_older_than(R, sid, c) = R
              /\ \A c2 \in Cutoffs :
                    c2 >= c =>
                        \A l \in R : l.state = GETROCKNET =>
                            l \in kl_mark_dried_older_than(R, sid, c2)
    /\ (KlInventarDone /\ ToggleBefore) =>
          LET sid == last.storage_id
              dry == {l \in pre.kl_herb_lots :
                        /\ l.storage_id = sid
                        /\ l.state = GETROCKNET \/ now >= l.added_at + DRY_WINDOW}
          IN  /\ \A l \in dry : [l EXCEPT !.state = GETROCKNET] \in kl_herb_lots
              /\ \A l \in pre.kl_herb_lots \ dry : l \in kl_herb_lots
              /\ Cardinality(kl_herb_lots) = Cardinality(pre.kl_herb_lots)
              /\ \A d \in {l.herb_display : l \in pre.kl_herb_lots} :
                    ReportedDried(d) =
                        Total({l \in dry : l.herb_display = d})

\* C9 witness: with the toggle enabled, the inventory found a Fresh lot of
\* 2 added exactly 7 days ago, left it Dried and reported 2 Dried
C9_Witness ==
    /\ KlInventarDone
    /\ ToggleBefore
    /\ \E l \in pre.kl_herb_lots :
          /\ l.storage_id = last.storage_id
          /\ l.state = FRISCH
          /\ l.qty = 2
          /\ now = l.added_at + DRY_WINDOW
          /\ [l EXCEPT !.state = GETROCKNET] \in kl_herb_lots
          /\ pre.kl_herb_lots = {l}
          /\ ReportedDried(l.herb_display) = 2

\* the auto-drying toggle of the guild is disabled (the default)
ToggleOff == 1 \notin DOMAIN guild_settings \/ ~guild_settings[1].kl_trocknen

\* C10: while the toggle is disabled no command changes the state of a lot:
\* every lot that is still there after a step taken with the toggle
\* disabled has the state it had before, Fresh or Dried.
C10_ToggleOffNoAging ==
    [][ToggleOff =>
          \A l \in kl_herb_lots : \A m \in kl_herb_lots' :
              m.id = l.id => m.state = l.state]_vars

\* C10 witness: with the toggle disabled, the inventory of the storage left
\* a Fresh lot that is 7 days old Fresh
C10_Witness ==
    /\ KlInventarDone
    /\ ~ToggleBefore
    /\ \E l \in kl_herb_lots :
          /\ l.storage_id = last.storage_id
          /\ l.state = FRISCH
          /\ now - l.added_at >= DRY_WINDOW
          /\ l \in pre.kl_herb_lots

\* the thresholds (smell, ruin) in days, as the specification lists them
RefThresholds(saison, enabled) ==
    IF ~enabled THEN <<7, 14>>
    ELSE CASE saison = Blattfrische -> <<4, 7>>
           [] saison = Blattfall -> <<4, 7>>
           [] saison = Blattleere -> <<7, 10>>
           [] saison = Blattgruene -> <<2, 5>>
           [] OTHER -> <<7, 14>>

\* the reference classification
RefStatus(age, saison, enabled) ==
    LET t == RefThresholds(saison, enabled)
    IN  IF age >= t[2] THEN "verdorben"
        ELSE IF age >= t[1] THEN "muffelt"
        ELSE "frisch"

\* C11: fbh_status_for_age_days equals the reference function for every
\* age in days, every season and both flag values: thresholds (7,14) with
\* the seasonal mode off, the season's pair with it on, (7,14) for a text
\* that is no season; Ruined from the ruin threshold on, else Smelly from
\* the smell threshold on, else Fresh.  Applying it changes no table.
C11_StatusIsReference ==
    last.cmd = "fbh_status_for_age_days" =>
        /\ last.report.status =
              RefStatus(last.report.age_days, last.report.saison,
                        last.report.saison_enabled)
        /\ Snapshot = pre

\* C11 witness: 5 days in Blattgruene with the seasonal mode on is Ruined
C11_Witness ==
    /\ last.cmd = "fbh_status_for_age_days"
    /\ last.report.age_days = 5
    /\ last.report.saison = Blattgruene
    /\ last.report.saison_enabled
    /\ last.report.status = "verdorben"

FbhInventarDone ==
    last.cmd = "inventar_anzeigen" /\ last.status = "ok" /\ last.name = TYPE_FBH

\* the batches of the storage of the last command
LiveBatches == {b \in fbh_batches : b.storage_id = last.storage_id}

\* the reference classification of a batch at the present time, under the
\* settings of the guild
BatchStatus(b) ==
    RefStatus((now - b.added_at) \div DAY, guild_settings[1].saison,
              guild_settings[1].fbh_saison_verderb)

\* C12: the status the FBH inventory reports for a storage with batches is
\* the worst among its batches: VERDORBEN when a batch is Ruined, else
\* MUFFELT when a batch is Smelly, else FRISCH; and the inventory leaves
\* the batch table as it was.
C12_PileStatusIsWorst ==
    FbhInventarDone =>
        /\ fbh_batches = pre.fbh_batches
        /\ LiveBatches # {} =>
              last.report.status =
                  IF \E b \in LiveBatches : BatchStatus(b) = "verdorben" THEN "VERDORBEN"
                  ELSE IF \E b \in LiveBatches : BatchStatus(b) = "muffelt" THEN "MUFFELT"
                  ELSE "FRISCH"

\* C12 witness: a pile with a Ruined batch and a Smelly batch is reported
\* VERDORBEN
C12_Witness ==
    /\ FbhInventarDone
    /\ \E a, b \in LiveBatches :
          BatchStatus(a) = "verdorben" /\ BatchStatus(b) = "muffelt"
    /\ last.report.status = "VERDORBEN"

\* the pantry rows of the storage and item key of the last pantry call
PantryRows(tbl) ==
    {p \in tbl : p.storage_id = last.storage_id /\ p.item_key = norm_key(last.name)}

\* C13: pantry_add(storage, item, q) raises the quantity of the row of
\* (storage, item key) by q, or creates the row with quantity q when there
\* is none, and leaves every other row as it is; and there is never more
\* than one pantry row for a (storage, item key).
C13_PantryAddUpserts ==
    /\ \A p1, p2 \in kl_pantry :
          (p1.storage_id = p2.storage_id /\ p1.item_key = p2.item_key) => p1 = p2
    /\ last.cmd = "pantry_add" =>
          /\ kl_pantry \ PantryRows(kl_pantry) = pre.kl_pantry \ PantryRows(pre.kl_pantry)
          /\ IF PantryRows(pre.kl_pantry) = {}
             THEN PantryRows(kl_pantry) =
                      {[storage_id |-> last.storage_id,
                        item_key |-> norm_key(last.name),
                        item_display |-> strip(last.name),
                        qty |-> last.menge]}
             ELSE PantryRows(kl_pantry) =
                      {[p EXCEPT !.qty = p.qty + last.menge] :
                          p \in PantryRows(pre.kl_pantry)}

\* C13 witness: 2 of "mix " were added to a storage whose row Mix held 1:
\* the row holds 3 under its first name
C13_Witness ==
    /\ last.cmd = "pantry_add"
    /\ last.name # Mix
    /\ last.menge = 2
    /\ \E p \in pre.kl_pantry :
          /\ p.item_display = Mix
          /\ p.qty = 1
          /\ PantryRows(kl_pantry) = {[p EXCEPT !.qty = 3]}

\* C14: pantry_take(storage, item, q) with q > 0 returns min(q, available),
\* with available the quantity of the row and 0 when there is none; the
\* row is left with available minus what was returned, and deleted when
\* that is 0; no other row changes, and no pantry row with a quantity <= 0
\* is stored.
C14_PantryTakeReturnsMin ==
    /\ \A p \in kl_pantry : p.qty > 0
    /\ last.cmd = "pantry_take" =>
          LET have == PantryQty(pre.kl_pantry, last.storage_id, last.name)
          IN  /\ last.removed = Min(last.menge, have)
              /\ last.removed >= 0
              /\ last.removed <= have
              /\ kl_pantry \ PantryRows(kl_pantry) =
                    pre.kl_pantry \ PantryRows(pre.kl_pantry)
              /\ IF have - last.removed = 0 THEN PantryRows(kl_pantry) = {}
                 ELSE PantryRows(kl_pantry) =
                          {[p EXCEPT !.qty = have - last.removed] :
                              p \in PantryRows(pre.kl_pantry)}

\* C14 witness: 3 asked of a row of 2: 2 returned and the row is gone,
\* while another row of the storage stays
C14_Witness ==
    /\ last.cmd = "pantry_take"
    /\ last.menge = 3
    /\ last.removed = 2
    /\ PantryRows(pre.kl_pantry) # {}
    /\ PantryRows(kl_pantry) = {}
    /\ \E p \in kl_pantry : p.storage_id = last.storage_id

\* the storages of guild 1 with the type and name that the texts t and n
\* stand for
Named(t, n) ==
    {x \in storages : x.guild_id = 1 /\ x.type = upper(strip(t)) /\ x.name = strip(n)}

SameTriple(x, y) == x.guild_id = y.guild_id /\ x.type = y.type /\ x.name = y.name

\* what a lager_erstellen step does to the registry
CreateStep ==
    last'.cmd = "lager_erstellen" =>
        IF last'.status = "ok"
        THEN \E new \in storages' :
                /\ new \notin storages
                /\ storages' = storages \cup {new}
                /\ \A x \in storages : ~SameTriple(x, new) /\ x.id # new.id
        ELSE storages' = storages

\* the INSERT of a storage is refused for exactly the types and names
\* that exist
ConflictSeen ==
    \A t \in TypInputs, n \in RegLager :
        storage_conflict(storages, 1, upper(strip(t)), n) <=> Named(t, n) # {}

\* resolve_storage finds nothing for exactly the types and names that were
\* not created, and finds the row of the others
NotFoundSeen ==
    \A m \in Members, t \in TypInputs, n \in RegLager :
        /\ ResolveStatus(m, 1, upper(strip(t)), n) = "nicht gefunden" <=> Named(t, n) = {}
        /\ Named(t, n) # {} =>
              storage_get(storages, 1, upper(strip(t)), n) =
                  {[id |-> x.id, owner_role_id |-> x.owner_role_id] : x \in Named(t, n)}

\* C15: no two storages have the same (guild, type, name); lager_erstellen
\* of a triple that exists is refused ("existiert schon"), and a refused
\* lager_erstellen leaves every storage row, owner role included, as it
\* was; one that goes through adds one row of a triple that was not there;
\* and resolving a triple that was not created gives "nicht gefunden".
C15_RegistryUnique ==
    /\ [](\A x, y \in storages : SameTriple(x, y) => x = y)
    /\ [](ConflictSeen /\ NotFoundSeen)
    /\ [][CreateStep]_vars

\* C15 witness: with FBH n1 owned by one role, a moderator's second
\* lager_erstellen of a storage was refused as existing
C15_Witness ==
    /\ last.cmd = "lager_erstellen"
    /\ last.status = "existiert schon"
    /\ \E x \in storages :
          x.type = TYPE_FBH /\ x.name = <<"n", "1">> /\ x.owner_role_id = RoleJaeger.id
    /\ Cardinality(storages) = 1

\* the replies of a command that is rejected: quantity not positive,
\* storage not found, access denied (to the storage, or to a command of
\* moderators), name not allowed, recipe not found, season not valid
RejectStatuses ==
    {"Menge", "nicht gefunden", "keine Berechtigung", "nur Mod/Admin",
     "nicht erlaubt", "Rezept nicht gefunden", "Ungueltig"}

\* C16: a command that is rejected because the storage or the recipe is
\* not found, the item or herb is not allowed, the quantity is not
\* positive, the season is not valid or access is denied leaves storages,
\* settings, batches, lots and pantry as they were.
C16_RejectedChangesNothing ==
    [][last'.status \in RejectStatuses =>
          /\ storages' = storages
          /\ storage_seq' = storage_seq
          /\ guild_settings' = guild_settings
          /\ fbh_batches' = fbh_batches
          /\ fbh_seq' = fbh_seq
          /\ kl_herb_lots' = kl_herb_lots
          /\ kl_seq' = kl_seq
          /\ kl_pantry' = kl_pantry]_vars

\* C16 witness: a craft of a recipe that is not in the table was rejected
\* in a guild with batches in store and no settings row, and none was made
C16_Witness ==
    /\ last.cmd = "kl_herstellen"
    /\ last.status = "Rezept nicht gefunden"
    /\ fbh_batches # {}
    /\ guild_settings = <<>>

\* the commands that read or change the batches, lots or pantry of a
\* storage
LedgerCmds ==
    {"inventar_anzeigen", "fbh_hinzufuegen", "fbh_entnehmen", "kl_hinzufuegen",
     "kl_entnehmen", "kl_vorraete", "kl_herstellen"}

\* the replies of a command that got to the rows of its storage
TouchedStatuses == {"ok", "nicht genug Zutaten", "unerwarteter Fehler"}

\* a role named mod or admin, in any case
ModOrAdminName(r) ==
    lower(r.name) \in {<<"m", "o", "d">>, <<"a", "d", "m", "i", "n">>}

\* the member may use a storage bound to the role with this id
MayUse(m, role_id) ==
    \/ \E r \in m.roles : r.id = role_id
    \/ \E r \in m.roles : ModOrAdminName(r)
    \/ m.manage_guild
    \/ m.administrator

\* members of every kind: any of four roles, with and without the two
\* permissions
RoleAdmin == [id |-> 30, name |-> <<"A", "D", "M", "I", "N">>]
RoleHeiler == [id |-> 40, name |-> <<"H", "e", "i", "l", "e", "r">>]

MemberShapes ==
    [id : {9}, roles : SUBSET {RoleJaeger, RoleMod, RoleAdmin, RoleHeiler},
     manage_guild : BOOLEAN, administrator : BOOLEAN]

\* C19: a command gets to the batches, lots or pantry of a storage only
\* for a member who holds the storage's owner role, or a role named
\* mod/admin, or the manage-guild or administrator permission
\* (assert_storage_access passes for exactly these members); a member
\* with none of these never gets past the permission error, and a command
\* that replied with it read nothing out and changed nothing.
C19_AccessControl ==
    /\ \A m \in MemberShapes, r \in {RoleJaeger, RoleMod, RoleAdmin, RoleHeiler} :
          assert_storage_access(m, r.id) <=> MayUse(m, r.id)
    /\ last.cmd \in LedgerCmds =>
          LET m == CHOOSE x \in Members : x.id = last.member
          IN  /\ last.status \in TouchedStatuses =>
                    \E st \in storages :
                        st.id = last.storage_id /\ MayUse(m, st.owner_role_id)
              /\ (\A st \in storages : ~MayUse(m, st.owner_role_id)) =>
                    last.status \in {"Menge", "Typ", "nicht gefunden", "keine Berechtigung"}
              /\ last.status = "keine Berechtigung" =>
                    /\ Snapshot = pre
                    /\ last.report = None
                    /\ last.removed = None
                    /\ \E st \in storages : ~MayUse(m, st.owner_role_id)

\* C19 witness: a member without the owner role asked for prey of a
\* storage that holds some and got the permission error
C19_Witness ==
    /\ last.cmd = "fbh_entnehmen"
    /\ last.status = "keine Berechtigung"
    /\ last.member = Stranger.id
    /\ fbh_batches # {}

\* C17: fbh_hinzufuegen with a quantity > 0 inserts one new batch row,
\* with a new id, the quantity given and the present time, and leaves
\* every batch that was there, those of the same item included, as it was.
C17_BatchAddNeverMerges ==
    (last.cmd = "fbh_hinzufuegen" /\ last.status = "ok") =>
        /\ pre.fbh_batches \subseteq fbh_batches
        /\ \E new \in fbh_batches :
              /\ fbh_batches = pre.fbh_batches \cup {new}
              /\ \A b \in pre.fbh_batches : b.id # new.id
              /\ new.storage_id = last.storage_id
              /\ new.item_key = norm_key(last.name)
              /\ new.qty = last.menge
              /\ new.qty > 0
              /\ new.added_at = now

\* C17 witness: the same add issued twice at the same time left two rows
\* that differ in their id only
C17_Witness ==
    /\ last.cmd = "fbh_hinzufuegen"
    /\ last.status = "ok"
    /\ \E a, b \in fbh_batches :
          /\ a.id # b.id
          /\ a \in pre.fbh_batches
          /\ b \notin pre.fbh_batches
          /\ [a EXCEPT !.id = b.id] = b

\* kl_add_herb applied to the lot table of the present state
AddHerbLeavesLots ==
    \A sid \in StorageIds, h \in LedgerKraut, q \in 1 .. MaxQty :
        LET R == kl_add_herb(kl_herb_lots, kl_seq, sid, h, q, now)
        IN  /\ kl_herb_lots \subseteq R
            /\ \E new \in R :
                  /\ R = kl_herb_lots \cup {new}
                  /\ \A l \in kl_herb_lots : l.id # new.id
                  /\ new.state = FRISCH
                  /\ new.qty = q
                  /\ new.added_at = now

\* a step inserts at most one lot, in state Fresh, and only kl_hinzufuegen
\* does; a lot that is Dried after the step was there before it
LotStep ==
    LET fresh_ids == {m \in kl_herb_lots' : \A l \in kl_herb_lots : l.id # m.id}
    IN  /\ Cardinality(fresh_ids) <= 1
        /\ \A m \in fresh_ids :
              /\ m.state = FRISCH
              /\ last'.cmd = "kl_hinzufuegen"
              /\ m.qty = last'.menge
              /\ m.added_at = now
        /\ \A m \in kl_herb_lots' :
              m.state = GETROCKNET =>
                  \E l \in kl_herb_lots :
                      /\ l.id = m.id
                      /\ l.added_at = m.added_at
                      /\ \/ l.state = GETROCKNET
                         \/ /\ l.state = FRISCH
                            /\ 1 \in DOMAIN guild_settings
                            /\ guild_settings[1].kl_trocknen
                            /\ now - l.added_at >= DRY_WINDOW
        /\ (last'.cmd = "kl_hinzufuegen" /\ last'.status = "ok") =>
              /\ Cardinality(fresh_ids) = 1
              /\ \A l \in kl_herb_lots :
                    \E m \in kl_herb_lots' : m.id = l.id /\ [m EXCEPT !.state = l.state] = l

\* C18: kl_add_herb adds one new lot in state Fresh and leaves every lot
\* that was there as it was; kl_hinzufuegen inserts exactly one lot, Fresh,
\* and keeps the quantity, added-at and key of every other lot (the aging
\* that precedes the insert may turn old Fresh lots Dried); no step
\* inserts a Dried lot: a lot that is Dried was there before, Dried, or
\* Fresh and turned by the aging.
C18_LotAddFreshOnly ==
    /\ []AddHerbLeavesLots
    /\ [][LotStep]_vars

\* C18 witness: a herb was added to a storage that holds a Dried lot of the
\* same herb and quantity: there are two lots, one Dried and the new one
\* Fresh
C18_Witness ==
    /\ last.cmd = "kl_hinzufuegen"
    /\ last.status = "ok"
    /\ \E a, b \in kl_herb_lots :
          /\ a.state = GETROCKNET
          /\ b.state = FRISCH
          /\ a.herb_key = b.herb_key
          /\ a.qty = b.qty
          /\ b.added_at = now
          /\ \A l \in pre.kl_herb_lots : l.id # b.id

\* the column defaults of guild_settings
SettingsDefaults ==
    [saison |-> Blattfrische, fbh_saison_verderb |-> FALSE, kl_trocknen |-> FALSE]

\* what an access to the settings of guild 1 has to return in this state
SettingsBefore ==
    IF 1 \in DOMAIN guild_settings THEN guild_settings[1] ELSE SettingsDefaults

\* the accessors applied to the settings table of the present state
SettingsAccess ==
    /\ get_settings(guild_settings, 1) = SettingsBefore
    /\ 1 \in DOMAIN ensure_settings(guild_settings, 1)
    /\ 1 \in DOMAIN guild_settings =>
          ensure_settings(guild_settings, 1) = guild_settings
    /\ get_settings(ensure_settings(guild_settings, 1), 1) = SettingsBefore
    /\ \A s \in DOMAIN SAISON_TIMES :
          set_saison(guild_settings, 1, s)[1]
              = [SettingsBefore EXCEPT !.saison = s]
    /\ \A a \in BOOLEAN :
          /\ set_fbh_saison_verderb(guild_settings, 1, a)[1]
                = [SettingsBefore EXCEPT !.fbh_saison_verderb = a]
          /\ set_kl_trocknen(guild_settings, 1, a)[1]
                = [SettingsBefore EXCEPT !.kl_trocknen = a]

\* a step keeps the row of guild 1 once it is there; the row it leaves is
\* the one an access returned before it, but for the one field a setting
\* command that was carried out has set
SettingsStep ==
    /\ 1 \in DOMAIN guild_settings => 1 \in DOMAIN guild_settings'
    /\ 1 \in DOMAIN guild_settings' =>
          LET row == guild_settings'[1]
          IN  IF last'.status = "ok" /\ last'.cmd = "saison_setzen"
              THEN row = [SettingsBefore EXCEPT !.saison = last'.name]
              ELSE IF last'.status = "ok" /\ last'.cmd = "fbh_saison_verderb"
              THEN row = [SettingsBefore EXCEPT
                              !.fbh_saison_verderb = row.fbh_saison_verderb]
              ELSE IF last'.status = "ok" /\ last'.cmd = "kl_trocknen"
              THEN row = [SettingsBefore EXCEPT !.kl_trocknen = row.kl_trocknen]
              ELSE row = SettingsBefore

\* C20: the first access to a guild's settings creates the row with the
\* season Blattfrische, seasonal spoilage off and drying off; later
\* accesses return the stored row unchanged; setting one of the three
\* fields leaves the other two as they were.
C20_SettingsDefaults ==
    /\ []SettingsAccess
    /\ [][SettingsStep]_vars

\* C20 witness: the season was set in a guild that had no settings row:
\* the row holds the new season and the defaults of the two switches
C20_Witness ==
    /\ last.cmd = "saison_setzen"
    /\ last.status = "ok"
    /\ pre.guild_settings = <<>>
    /\ guild_settings[1] = [saison |-> Blattleere, fbh_saison_verderb |-> FALSE,
                            kl_trocknen |-> FALSE]

\* a second case of C20: a switch was turned on and the season set
\* afterwards kept it
C20_SwitchKept ==
    /\ last.cmd = "saison_setzen"
    /\ last.status = "ok"
    /\ 1 \in DOMAIN pre.guild_settings
    /\ pre.guild_settings[1].kl_trocknen
    /\ guild_settings[1].kl_trocknen
    /\ guild_settings[1].saison # pre.guild_settings[1].saison

\* C25: a craft that was run on its own and passed validation takes, for
\* every ingredient, exactly the amount needed: it ends with the product
\* made, never with the error of the commit pass.
C25_CommitTakesExact ==
    (/\ last.cmd = "kl_herstellen"
     /\ last.status \in {"ok", "unerwarteter Fehler"}) =>
        last.status = "ok"

\* C27: a lot that is Dried is Dried after every step that keeps it.
C27_DriedStaysDried ==
    [][\A l \in kl_herb_lots :
          l.state = GETROCKNET =>
              \A m \in kl_herb_lots' : m.id = l.id => m.state = GETROCKNET]_vars

\* C27 witness: with auto-drying switched off again, a take reduced a Dried
\* lot and left it Dried
C27_Witness ==
    /\ KlTook
    /\ ~ToggleBefore
    /\ \E l \in pre.kl_herb_lots, m \in kl_herb_lots :
          /\ l.state = GETROCKNET
          /\ m.id = l.id
          /\ m.qty < l.qty
          /\ m.state = GETROCKNET

\* C28: every Dried lot was added at least the drying window ago.
C28_DriedIsOld ==
    \A l \in kl_herb_lots :
        l.state = GETROCKNET => l.added_at <= now - DRY_WINDOW

\* C28 witness: a lot exactly as old as the drying window is Dried, beside
\* a younger lot that is Fresh
C28_Witness ==
    \E l, y \in kl_herb_lots :
        /\ l.state = GETROCKNET
        /\ l.added_at = now - DRY_WINDOW
        /\ y.state = FRISCH
        /\ y.added_at = now
        /\ y.storage_id = l.storage_id

\* the type of the storage a row belongs to
TypeOf(sid) == {s.type : s \in {x \in storages : x.id = sid}}

\* C30: every batch belongs to a storage of type FBH, every lot and every
\* pantry row to a storage of type KL.
C30_TypesPartitionLedgers ==
    /\ \A b \in fbh_batches : TypeOf(b.storage_id) = {TYPE_FBH}
    /\ \A l \in kl_herb_lots : TypeOf(l.storage_id) = {TYPE_KL}
    /\ \A p \in kl_pantry : TypeOf(p.storage_id) = {TYPE_KL}

\* C30 witness: a batch and a pantry row in two storages of the same name
C30_Witness ==
    \E b \in fbh_batches, p \in kl_pantry :
        \E s, t \in storages :
            /\ s.id = b.storage_id
            /\ t.id = p.storage_id
            /\ s.name = t.name
            /\ s.id # t.id

\* the last command is one of the four that work on the lots of a KL
\* storage, and it got as far as the lots
LotCommandRan ==
    \/ KlInventarDone
    \/ /\ last.cmd \in {"kl_hinzufuegen", "kl_entnehmen", "kl_herstellen"}
       /\ last.status \in {"ok", "nicht genug Zutaten", "unerwarteter Fehler"}

\* a lot of the storage of the last command that is Fresh in the table
\* though the drying window has passed
FreshButOld(l) ==
    /\ l.storage_id = last.storage_id
    /\ l.state = FRISCH
    /\ now - l.added_at >= DRY_WINDOW

\* the total the report of the last KL inventory gives for a herb under
\* Fresh (0 when the herb is not listed)
ReportedFresh(d) ==
    IF d \in DOMAIN last.report.fresh THEN last.report.fresh[d] ELSE 0

\* C26: with auto-drying enabled, a command that works on the lots of a KL
\* storage ages them first: it leaves no lot of the storage Fresh that is 7
\* days old, the inventory reports as Fresh the lots younger than 7 days
\* only, and a take or a craft draws on a lot that was Fresh and 7 days old
\* only when the younger Fresh lots of the herb are used up.
C26_AgingPrecedesAccess ==
    (LotCommandRan /\ ToggleBefore) =>
        /\ \A l \in kl_herb_lots : ~FreshButOld(l)
        /\ KlInventarDone =>
              \A d \in {l.herb_display : l \in pre.kl_herb_lots} :
                  ReportedFresh(d) =
                      Total({l \in pre.kl_herb_lots :
                                /\ l.storage_id = last.storage_id
                                /\ l.herb_display = d
                                /\ l.state = FRISCH
                                /\ now - l.added_at < DRY_WINDOW})
        /\ last.cmd \in {"kl_entnehmen", "kl_herstellen"} =>
              \A l \in pre.kl_herb_lots :
                  (FreshButOld(l) /\ GaveUp(kl_herb_lots, l) > 0) =>
                      \A y \in pre.kl_herb_lots :
                          (/\ y.storage_id = l.storage_id
                           /\ y.herb_key = l.herb_key
                           /\ y.state = FRISCH
                           /\ now - y.added_at < DRY_WINDOW) =>
                              Deleted(kl_herb_lots, y)

\* C26 witness: the take found an old lot still Fresh and a younger Fresh
\* lot of the same herb; it used up the younger one before it drew on the
\* old one, which it left Dried
C26_Witness ==
    /\ KlTook
    /\ ToggleBefore
    /\ \E l, y \in pre.kl_herb_lots :
          /\ FreshButOld(l)
          /\ y.storage_id = l.storage_id
          /\ y.herb_key = l.herb_key
          /\ y.state = FRISCH
          /\ y.added_at = now
          /\ Deleted(kl_herb_lots, y)
          /\ GaveUp(kl_herb_lots, l) > 0
          /\ \E m \in kl_herb_lots : m.id = l.id /\ m.state = GETROCKNET

\* table R differs from table T in rows of storage sid and key k only;
\* key(r) is the key of row r
OnlyKeyRowsDiffer(T, R, sid, k, key(_)) ==
    /\ \A r \in T : (r.storage_id # sid \/ key(r) # k) => r \in R
    /\ \A r \in R : (r.storage_id # sid \/ key(r) # k) => r \in T

ItemKeyOf(r) == r.item_key

HerbKeyOf(r) == r.herb_key

\* C29: a take changes rows of its storage and its key only.  fbh_take and
\* kl_take_herb, applied to the tables of the present state with any
\* storage, allowed name and quantity, leave every row of another storage
\* or another key as it was and add none; fbh_entnehmen leaves the lots and
\* the pantry alone, kl_entnehmen the batches and the pantry, and of the
\* lots of another storage or another herb it changes nothing but, by its
\* aging step, the state of the old Fresh lots of its storage.
C29_TakeFrame ==
    /\ \A sid \in StorageIds, q \in 1 .. (MaxQty + 1) :
          /\ \A n \in ALLOWED_FBH_PREY :
                \A ord \in OrderByAddedAt(fbh_take_select(fbh_batches, sid, n)) :
                    OnlyKeyRowsDiffer(fbh_batches, fbh_take(fbh_batches, ord, q).tbl,
                                      sid, norm_key(n), ItemKeyOf)
          /\ \A n \in ALLOWED_KL_HERBS :
                \A r \in kl_take_herb_results(kl_herb_lots, sid, n, q) :
                    OnlyKeyRowsDiffer(kl_herb_lots, r.tbl, sid, norm_key(n), HerbKeyOf)
    /\ FbhTook =>
          /\ OnlyKeyRowsDiffer(pre.fbh_batches, fbh_batches, last.storage_id,
                               norm_key(last.name), ItemKeyOf)
          /\ kl_herb_lots = pre.kl_herb_lots
          /\ kl_pantry = pre.kl_pantry
    /\ KlTook =>
          /\ OnlyKeyRowsDiffer({[l EXCEPT !.state = StateAtTake(l)] :
                                   l \in pre.kl_herb_lots},
                               kl_herb_lots, last.storage_id,
                               norm_key(last.name), HerbKeyOf)
          /\ fbh_batches = pre.fbh_batches
          /\ kl_pantry = pre.kl_pantry

\* C29 witness: a take removed prey of one kind from a storage that holds
\* a batch of another kind, which is there as before
C29_Witness ==
    /\ FbhTook
    /\ last.removed > 0
    /\ \E b \in pre.fbh_batches :
          /\ b.storage_id = last.storage_id
          /\ b.item_key # norm_key(last.name)
          /\ b \in fbh_batches

\* a second case of C29: a take removed a herb from a storage that holds a
\* lot of another herb
C29_OtherHerbKept ==
    /\ KlTook
    /\ last.removed > 0
    /\ \E l \in pre.kl_herb_lots :
          /\ l.storage_id = last.storage_id
          /\ l.herb_key # norm_key(last.name)
          /\ l \in kl_herb_lots

\* a text with every blank doubled
RECURSIVE WidenBlanks(_)
WidenBlanks(s) ==
    IF s = <<>> THEN s
    ELSE IF Head(s) = " " THEN <<" ", " ">> \o WidenBlanks(Tail(s))
    ELSE <<Head(s)>> \o WidenBlanks(Tail(s))

\* spellings of a name that differ from it in letter case and in leading,
\* trailing and repeated blanks only
SpellingsOf(b) ==
    UNION {{w, <<" ">> \o w, w \o <<" ">>, <<" ">> \o w \o <<" ", " ">>} :
              w \in UNION {{c, WidenBlanks(c)} : c \in {b, lower(b), upper(b)}}}

\* the spellings of every allowed name
FbhSpellings == [d \in ALLOWED_FBH_PREY |-> SpellingsOf(d)]

KlSpellings == [d \in ALLOWED_KL_HERBS |-> SpellingsOf(d)]

\* the keys the spellings of an allowed name are given
FbhKeysOfSpellings == [d \in ALLOWED_FBH_PREY |-> {norm_key(a) : a \in FbhSpellings[d]}]

KlKeysOfSpellings == [d \in ALLOWED_KL_HERBS |-> {norm_key(a) : a \in KlSpellings[d]}]

\* the names the commands go on with when given the spellings of an
\* allowed name: the text itself for one that is not allowed
FbhNamesOfSpellings ==
    [d \in ALLOWED_FBH_PREY |->
        {IF is_allowed(apply_aliases_fbh(a), ALLOWED_FBH_SET)
         THEN canonical(apply_aliases_fbh(a), ALLOWED_FBH_SET) ELSE a :
            a \in FbhSpellings[d]}]

KlNamesOfSpellings ==
    [d \in ALLOWED_KL_HERBS |->
        {IF is_allowed(a, ALLOWED_KL_SET) THEN canonical(a, ALLOWED_KL_SET) ELSE a :
            a \in KlSpellings[d]}]

\* the rows of a storage that were stored under display name d
BatchesNamed(tbl, sid, d) == {b \in tbl : b.storage_id = sid /\ b.item_display = d}

LotsNamed(tbl, sid, d) == {l \in tbl : l.storage_id = sid /\ l.herb_display = d}

\* what a craft of `menge` units of the recipe needs of the herb with
\* display name d, added up over the ingredients from i on that are
\* spellings of d
RECURSIVE NeedOfHerb(_, _, _, _)
NeedOfHerb(recipe, d, menge, i) ==
    IF i > Len(recipe) THEN 0
    ELSE (IF recipe[i][1] \in KlSpellings[d] THEN recipe[i][2] * menge ELSE 0)
         + NeedOfHerb(recipe, d, menge, i + 1)

\* every spelling of an allowed name has the key of the name and is allowed
\* and made the name by the commands; add, take, total and the validation
\* of a craft, given any of them, work on the rows stored under the name
SpellingsShareKey ==
    /\ \A d \in ALLOWED_FBH_PREY :
          /\ FbhKeysOfSpellings[d] = {norm_key(d)}
          /\ FbhNamesOfSpellings[d] = {d}
    /\ \A d \in ALLOWED_KL_HERBS :
          /\ KlKeysOfSpellings[d] = {norm_key(d)}
          /\ KlNamesOfSpellings[d] = {d}
    /\ \A d, e \in ALLOWED_FBH_PREY : d # e => FbhKeysOfSpellings[d] # FbhKeysOfSpellings[e]
    /\ \A sid \in StorageIds, d \in ALLOWED_FBH_PREY :
          LET named == BatchesNamed(fbh_batches, sid, d)
          IN  /\ \A c \in FbhNamesOfSpellings[d] :
                    /\ fbh_take_select(fbh_batches, sid, c) = named
                    /\ BatchesNamed(fbh_add(fbh_batches, fbh_seq, sid, c, 1, now),
                                    sid, d) # named
              /\ \A k \in FbhKeysOfSpellings[d] :
                    named # {} =>
                        /\ k \in DOMAIN fbh_total(fbh_batches, sid)
                        /\ fbh_total(fbh_batches, sid)[k] = Total(named)
    /\ \A sid \in StorageIds, d \in ALLOWED_KL_HERBS :
          LET named == LotsNamed(kl_herb_lots, sid, d)
          IN  /\ \A c \in KlNamesOfSpellings[d] :
                    kl_take_select(kl_herb_lots, sid, c, FRISCH)
                    \cup kl_take_select(kl_herb_lots, sid, c, GETROCKNET) = named
              /\ \A k \in KlKeysOfSpellings[d] :
                    kl_total_available(kl_herb_lots, sid, k) = Total(named)

\* the last command, whatever the spelling it was given, worked on the
\* rows stored under the name
SpelledCommandCounts ==
    /\ (last.cmd = "fbh_hinzufuegen" /\ last.status = "ok") =>
          Total(BatchesNamed(fbh_batches, last.storage_id, last.name))
              = Total(BatchesNamed(pre.fbh_batches, last.storage_id, last.name))
                + last.menge
    /\ FbhTook =>
          LET had == Total(BatchesNamed(pre.fbh_batches, last.storage_id, last.name))
          IN  /\ last.removed = Min(last.menge, had)
              /\ Total(BatchesNamed(fbh_batches, last.storage_id, last.name))
                    = had - last.removed
    /\ (last.cmd = "kl_hinzufuegen" /\ last.status = "ok") =>
          Total(LotsNamed(kl_herb_lots, last.storage_id, last.name))
              = Total(LotsNamed(pre.kl_herb_lots, last.storage_id, last.name))
                + last.menge
    /\ KlTook =>
          LET had == Total(LotsNamed(pre.kl_herb_lots, last.storage_id, last.name))
          IN  /\ last.removed = Min(last.menge, had)
              /\ Total(LotsNamed(kl_herb_lots, last.storage_id, last.name))
                    = had - last.removed
    /\ (last.cmd = "kl_herstellen" /\ last.status = "ok") =>
          \A d \in ALLOWED_KL_HERBS :
              Total(LotsNamed(kl_herb_lots, last.storage_id, d))
                  = Total(LotsNamed(pre.kl_herb_lots, last.storage_id, d))
                    - NeedOfHerb(LastRecipe, d, last.menge, 1)

\* C21: names that differ in letter case and in leading, trailing and
\* repeated blanks only have one key, so what was added under one spelling
\* is in the same total and is taken, or consumed by a recipe, under
\* another.
C21_SpellingsAggregate ==
    /\ SpellingsShareKey
    /\ SpelledCommandCounts

\* C21 witness: a take, spelled in small letters with blanks around, took
\* herbs that could only have been added spelled in capitals
C21_Witness ==
    /\ KlTook
    /\ last.removed = 2
    /\ last.name = Basil
    /\ TakeKraut \cap AddKraut = {}
    /\ Basil \notin TakeKraut \cup AddKraut

\* a second case of C21: a recipe that names the herb as "basil " consumed
\* herbs added as "BASIL"
C21_RecipeSpelling ==
    /\ last.cmd = "kl_herstellen"
    /\ last.status = "ok"
    /\ last.name = Duo
    /\ Total(LotsNamed(pre.kl_herb_lots, last.storage_id, Basil)) = 2
    /\ LotsNamed(kl_herb_lots, last.storage_id, Basil) = {}

\* a third case of C21: prey added in capitals with widened blanks was
\* taken spelled in small letters with blanks around
C21_PreySpelling ==
    /\ FbhTook
    /\ last.removed = 2
    /\ last.name = Maus_allgemein

\* no command is in flight and the replies have not been read yet
RaceOver ==
    /\ \A t \in TaskIds : tasks[t].pc \in {"idle", "done"}
    /\ \E t \in TaskIds : tasks[t].pc = "done"

\* the tasks of command cmd that went through, on storage sid and key k
Finished(cmd, sid, k) ==
    {t \in TaskIds : /\ tasks[t].cmd = cmd
                     /\ tasks[t].status = "ok"
                     /\ tasks[t].storage_id = sid
                     /\ norm_key(tasks[t].herb) = k}

\* the sum of the amounts the takes T returned
RECURSIVE Returned(_)
Returned(T) ==
    IF T = {} THEN 0
    ELSE LET t == CHOOSE x \in T : TRUE
         IN  tasks[t].removed + Returned(T \ {t})

CraftTasks == {t \in TaskIds : tasks[t].cmd = "kl_herstellen"}

\* the total of an item key in a storage
InStock(tbl, sid, k) == Total({b \in tbl : b.storage_id = sid /\ b.item_key = k})

\* C22: when the takes in flight have all returned, what they returned for
\* a storage and key adds up to no more than was stored before them, and
\* what is stored is what was stored less that sum.
C22_NoDoubleSpend ==
    RaceOver =>
        /\ \A sid \in StorageIds :
              \A k \in {b.item_key : b \in pre.fbh_batches} :
                  LET got == Returned(Finished("fbh_entnehmen", sid, k))
                  IN  /\ got <= InStock(pre.fbh_batches, sid, k)
                      /\ InStock(fbh_batches, sid, k)
                            = InStock(pre.fbh_batches, sid, k) - got
        /\ CraftTasks = {} =>
              \A sid \in StorageIds :
                  \A k \in {l.herb_key : l \in pre.kl_herb_lots} :
                      LET got == Returned(Finished("kl_entnehmen", sid, k))
                      IN  /\ got <= Available(pre.kl_herb_lots, sid, k)
                          /\ Available(kl_herb_lots, sid, k)
                                = Available(pre.kl_herb_lots, sid, k) - got

\* the failing run of C22: one batch of 1, two takes of 1, both returned 1
C22_BothTookTheOnlyOne ==
    /\ RaceOver
    /\ \E b \in pre.fbh_batches :
          /\ pre.fbh_batches = {b}
          /\ b.qty = 1
          /\ \A t \in TaskIds :
                /\ tasks[t].cmd = "fbh_entnehmen"
                /\ tasks[t].menge = 1
                /\ tasks[t].removed = 1

\* what the crafts T need of herb key k, added up over their ingredients
RECURSIVE NeedOfKey(_, _, _)
NeedOfKey(recipe, k, i) ==
    IF i > Len(recipe) THEN 0
    ELSE (IF norm_key(recipe[i][1]) = k THEN recipe[i][2] ELSE 0)
         + NeedOfKey(recipe, k, i + 1)

RECURSIVE Consumed(_, _)
Consumed(T, k) ==
    IF T = {} THEN 0
    ELSE LET t == CHOOSE x \in T : TRUE
         IN  NeedOfKey(KL_RECIPES[tasks[t].name], k, 1) * tasks[t].menge
             + Consumed(T \ {t}, k)

\* C23: when the crafts and takes in flight have all returned, every craft
\* has either made its product or failed validation, and the stock of
\* every herb is what it was less what the crafts that went through need
\* and what the takes returned.
C23_CraftAllOrNothing ==
    RaceOver =>
        /\ \A t \in CraftTasks :
              tasks[t].status \in {"ok", "nicht genug Zutaten"}
        /\ \A sid \in StorageIds :
              \A k \in {l.herb_key : l \in pre.kl_herb_lots} :
                  Available(kl_herb_lots, sid, k)
                      = Available(pre.kl_herb_lots, sid, k)
                        - Consumed({t \in CraftTasks : /\ tasks[t].status = "ok"
                                                       /\ tasks[t].storage_id = sid}, k)
                        - Returned(Finished("kl_entnehmen", sid, k))

\* a failing run of C23: a craft of Mix passed validation, a take in flight
\* removed the Thyme, and the craft ended with its Basil consumed, no
\* Thyme taken and nothing made
C23_PartlyConsumed ==
    /\ RaceOver
    /\ \E t, u \in TaskIds :
          /\ tasks[t].cmd = "kl_herstellen"
          /\ tasks[t].name = Mix
          /\ tasks[t].status = "unerwarteter Fehler"
          /\ tasks[t].took = <<2, 0>>
          /\ tasks[u].cmd = "kl_entnehmen"
          /\ tasks[u].removed = 1
    /\ kl_herb_lots = {}
    /\ kl_pantry = {}

\* a second failing run of C23: two crafts of Mix both went through on the
\* herbs of one
C23_TwoCraftsOnOneStock ==
    /\ RaceOver
    /\ \A t \in TaskIds :
          /\ tasks[t].cmd = "kl_herstellen"
          /\ tasks[t].name = Mix
          /\ tasks[t].status = "ok"
    /\ Available(pre.kl_herb_lots, 2, norm_key(Basil)) = 2

\* what ingredient j of the craft of task t needs
NeedAt(t, j) == KL_RECIPES[tasks[t].name][j][2] * tasks[t].menge

\* the commit pass of a craft ends at the first take that returned another
\* amount than needed, with the error; the product is made only after
\* every take returned the amount needed
AbortsAtShortTake ==
    \A t \in CraftTasks :
        /\ \A j \in DOMAIN tasks[t].took :
              tasks[t].took[j] # NeedAt(t, j) =>
                  /\ j = Len(tasks[t].took)
                  /\ tasks[t].pc = "done"
                  /\ tasks[t].status = "unerwarteter Fehler"
        /\ tasks[t].status = "unerwarteter Fehler" =>
              /\ tasks[t].took # <<>>
              /\ tasks[t].took[Len(tasks[t].took)] # NeedAt(t, Len(tasks[t].took))
        /\ tasks[t].pc \in {"pantry_add_fetch", "pantry_add_execute",
                            "pantry_add_commit"} =>
              /\ Len(tasks[t].took) = Len(KL_RECIPES[tasks[t].name])
              /\ \A j \in DOMAIN tasks[t].took : tasks[t].took[j] = NeedAt(t, j)

\* the step that aborts a craft changes no lot and no pantry row; a command
\* that has returned does nothing more; lots change by the statement of a
\* task that is in a take or the aging (or by an add), pantry rows by the
\* statement of a task in pantry_add
AbortStep ==
    /\ \A t \in TaskIds :
          /\ (tasks[t].pc # "done" /\ tasks'[t].status = "unerwarteter Fehler") =>
                /\ kl_herb_lots' = kl_herb_lots
                /\ kl_pantry' = kl_pantry
          /\ tasks[t].pc = "done" =>
                tasks'[t] = tasks[t] \/ tasks'[t] = IdleTask
    /\ kl_herb_lots' # kl_herb_lots =>
          \/ Quiet
          \/ \E t \in TaskIds : /\ tasks[t].pc \in {"kl_take_herb_execute", "drying"}
                                /\ tasks'[t] # tasks[t]
    /\ kl_pantry' # kl_pantry =>
          \E t \in TaskIds : /\ tasks[t].pc = "pantry_add_execute"
                             /\ tasks'[t] # tasks[t]

\* C24: a take of the commit pass of a craft that returns another amount
\* than needed ends the craft there with the error: no later ingredient is
\* taken, nothing is put into the pantry, and what was taken stays taken.
C24_ShortTakeAborts ==
    /\ []AbortsAtShortTake
    /\ [][AbortStep]_vars

\* C24 witness: a craft of Mix (2 Basil, 1 Thyme) got 1 Basil where it
\* needed 2 and ended with the error: the Basil is gone, the Thyme is
\* there, the pantry is empty
C24_Witness ==
    \E t \in TaskIds :
        /\ tasks[t].cmd = "kl_herstellen"
        /\ tasks[t].name = Mix
        /\ tasks[t].pc = "done"
        /\ tasks[t].status = "unerwarteter Fehler"
        /\ tasks[t].took = <<1>>
        /\ Available(kl_herb_lots, tasks[t].storage_id, norm_key(Basil)) = 0
        /\ Available(kl_herb_lots, tasks[t].storage_id, norm_key(Thyme)) = 1
        /\ Available(pre.kl_herb_lots, tasks[t].storage_id, norm_key(Basil)) = 2
        /\ kl_pantry = {}

\* the sum of the multipliers of the crafts T
RECURSIVE Produced(_)
Produced(T) ==
    IF T = {} THEN 0
    ELSE LET t == CHOOSE x \in T : TRUE
         IN  tasks[t].menge + Produced(T \ {t})

\* the commands in flight were crafts of one recipe in one storage and
\* have all gone through
CraftsWentThrough ==
    /\ RaceOver
    /\ \A t \in TaskIds : tasks[t].cmd = "kl_herstellen" /\ tasks[t].status = "ok"
    /\ \A t, u \in TaskIds : /\ tasks[t].storage_id = tasks[u].storage_id
                             /\ tasks[t].name = tasks[u].name

\* C31: when crafts of one recipe in one storage were in flight together
\* and all went through, the pantry quantity of the product is what it was
\* before them plus the sum of their multipliers.
C31_NoLostPantryUpdate ==
    CraftsWentThrough =>
        \A t \in TaskIds :
            PantryQty(kl_pantry, tasks[t].storage_id, tasks[t].name)
                = PantryQty(pre.kl_pantry, tasks[t].storage_id, tasks[t].name)
                  + Produced(TaskIds)

\* the failing run of C31: the pantry held 1 Duo and the store 4 Basil, two
\* crafts of 1 Duo went through and used up the Basil, and the pantry
\* holds 2 Duo
C31_SecondProduceOverwrote ==
    /\ CraftsWentThrough
    /\ \A t \in TaskIds :
          /\ tasks[t].name = Duo
          /\ tasks[t].menge = 1
          /\ tasks[t].took = <<1, 1>>
          /\ PantryQty(pre.kl_pantry, tasks[t].storage_id, Duo) = 1
          /\ PantryQty(kl_pantry, tasks[t].storage_id, Duo) = 2
          /\ Available(pre.kl_herb_lots, tasks[t].storage_id, norm_key(Basil)) = 4
          /\ Available(kl_herb_lots, tasks[t].storage_id, norm_key(Basil)) = 0

====
